---- MODULE Spec2Model ----
(***************************************************************************)
(* Module discovery and reconciliation of the InfoTech.io hub:             *)
(* scripts/scan-modules.js (GitHubClient, ModuleScanner).                  *)
(*                                                                         *)
(* JavaScript strings are sequences of tokens, e.g. "linux-base" is        *)
(* <<"linux", "-", "base">>; a token is a run of characters that no string *)
(* operation of the program splits (the prefix 'mod_', the character '-'). *)
(* The value undefined is the reserved one-token sequence UNDEF, the empty *)
(* string is <<>>.  Time is counted in milliseconds and advances in steps  *)
(* of TickMs.                                                              *)
(***************************************************************************)
EXTENDS Integers, Sequences, FiniteSets, TLC

VARIABLES
    now,        \* Date.now()
    remote,     \* remote[r]: the module.json text at the root of repository r, or Absent
    central,    \* the central modules.json beside the scripts: a text, or Absent
    orgRepos,   \* the organization's repositories, in the order the API lists them
    cache,      \* ModuleScanner.cache: key -> {data, timestamp}
    pc,         \* where the caller's current operation stands
    op,         \* the operation in progress: "none", "scanModule", "generate"
    moduleName, \* scanModule's argument while a scan is in progress
    net,        \* the last https request and, once the server answered, its response
    repos,      \* scanAllModules: the filtered listing (of the last scan)
    idx,        \* scanAllModules: position of the for loop in repos
    results,    \* scanAllModules: the results accumulated so far (of the last scan)
    ret,        \* what the last finished operation returned, or that it raised
    log,        \* the Logger.warning lines "Skipping <repository>: <error>" of the last build
    calls,      \* history: calls[r] holds the last two scanModule calls for r, oldest first:
                \* when each started and returned, whether it fetched, its result's source
    lastEdit,   \* history: lastEdit[r] is the time of the last edit of r's module.json, -1 if none
    nOps,       \* history: operations started
    nEdits,     \* history: edits made
    document,   \* the moduleData passed to ModuleValidator.validateModule
    validation, \* what validateModule did with it: the schema's verdict and errors,
                \* the warnings, the lines logged, the value returned
    loader,     \* the landing page's ModulesLoader: its view, its retryCount, its loads
                \* in flight and its retry timers; and history: loads started, clicks
    lastBuilt   \* history: what the generateUnifiedModules call before the last one
                \* returned, whether a request of its scan failed, and whether one
                \* of the last call's scan has

vars == <<now, remote, central, orgRepos, cache, pc, op, moduleName, net,
          repos, idx, results, ret, log, calls, lastEdit, nOps, nEdits,
          document, validation, loader, lastBuilt>>

-----------------------------------------------------------------------------
(* Bounds of the model *)

MaxTicks == 2
MaxOps == 2
MaxEdits == 1
\* The clicks on the retry button of the landing page.
MaxClicks == 3

TickMs == 150 * 1000

-----------------------------------------------------------------------------
(* JavaScript values *)

UNDEF == <<"undefined">>
EmptyStr == <<>>
\* No such file (a reserved value, like UNDEF).
Absent == <<"no such file">>

Falsy(v) == v = UNDEF \/ v = EmptyStr

\* a || b
OrElse(a, b) == IF Falsy(a) THEN b ELSE a

\* o?.f for a nested object o of a descriptor
OptGet(o, f) == IF o.present THEN o[f] ELSE UNDEF

NoDeployment == [present |-> FALSE, subdomain |-> UNDEF, repository |-> UNDEF]
NoUrls == [present |-> FALSE, production |-> UNDEF]
NoMetadata ==
    [present |-> FALSE, difficulty |-> UNDEF, estimated_time |-> UNDEF, tags |-> UNDEF,
     license |-> UNDEF]
NoStatus == [present |-> FALSE, lifecycle |-> UNDEF, last_updated |-> UNDEF]
NoHugoConfig == [present |-> FALSE, hugo_version |-> UNDEF]

\* The object the text {} parses to: every field of a descriptor is missing.
EmptyObject ==
    [name |-> UNDEF, title |-> UNDEF, version |-> UNDEF, type |-> UNDEF,
     deployment |-> NoDeployment, urls |-> NoUrls, metadata |-> NoMetadata,
     status |-> NoStatus, hugo_config |-> NoHugoConfig]

-----------------------------------------------------------------------------
(* The repositories and the documents of the model *)

Hub == <<"infotecha">>
ModLinuxBase == <<"mod_", "linux", "_", "base">>
ModDocker == <<"mod_", "docker">>

Mods == {ModLinuxBase, ModDocker}

TextGarbage == <<"{ \"name\": \"docker\", ">>
TextEmptyObject == <<"{}">>
TextLinuxV1 == <<"{\"name\":\"linux-base\",\"title\":\"Linux\",\"version\":\"1.0.0\"}">>
TextLinuxV2 == <<"{\"name\":\"linux-base\",\"title\":\"Linux\",\"version\":\"1.1.0\",\"deployment\":{\"subdomain\":\"linux\",\"repository\":\"mod_linux_base\"},\"urls\":{\"production\":\"https://linux.infotecha.ru\"},\"metadata\":{\"difficulty\":\"beginner\",\"tags\":[\"linux\"]},\"status\":{\"lifecycle\":\"stable\"}}">>
TextDocker == <<"{\"name\":\"docker\",\"title\":\"Docker\",\"version\":\"0.1.0\",\"deployment\":{\"subdomain\":\"\"},\"metadata\":{\"difficulty\":\"advanced\"}}">>

ModuleTexts == {TextGarbage, TextEmptyObject, TextLinuxV1, TextLinuxV2, TextDocker}

LinuxBaseName == <<"linux", "-", "base">>

\* A descriptor of the module linux-base with all its sections, its fields as given.
Descriptor(version, difficulty, subdomain, repository, production, license, hugo_version, tags) ==
    [name |-> LinuxBaseName, title |-> <<"Linux">>, version |-> version,
     type |-> <<"educational">>,
     deployment |-> [present |-> TRUE, subdomain |-> subdomain, repository |-> repository],
     urls |-> [present |-> TRUE, production |-> production],
     metadata |-> [present |-> TRUE, difficulty |-> difficulty,
                   estimated_time |-> <<"40 hours">>, tags |-> tags,
                   license |-> license],
     status |-> [present |-> TRUE, lifecycle |-> <<"stable">>,
                 last_updated |-> <<"2025-09-21T10:30:00Z">>],
     hugo_config |-> [present |-> TRUE, hugo_version |-> hugo_version]]

\* The tags of a descriptor: none (the field is missing), or the first n of these.
MaxTags == 3
Tags(n) ==
    IF n < 0 THEN UNDEF
    ELSE SubSeq(<< <<"linux">>, <<"shell">>, <<"admin">>, <<"bash">>, <<"kernel">> >>, 1, n)

\* The example of docs/MODULE_JSON_SPEC.md: a descriptor as the schema and the
\* conventions want it.
TextLinuxFull == <<"{\"schema_version\":\"1.0\",\"name\":\"linux-base\", ... ,\"status\":{\"lifecycle\":\"stable\",\"last_updated\":\"2025-09-21T10:30:00Z\"}}">>
LinuxFull ==
    Descriptor(<<"1.0.0">>, <<"beginner">>, LinuxBaseName, <<"mod_", "linux", "_", "base">>,
               <<"https://", "linux", "-", "base", ".infotecha.ru">>, <<"MIT">>,
               <<"0.148.0">>, Tags(MaxTags))

LinuxV1 ==
    [EmptyObject EXCEPT !.name = <<"linux", "-", "base">>, !.title = <<"Linux">>,
                        !.version = <<"1.0.0">>]

LinuxV2 ==
    [LinuxV1 EXCEPT !.version = <<"1.1.0">>,
        !.deployment = [present |-> TRUE, subdomain |-> <<"linux">>,
                        repository |-> <<"mod_", "linux", "_", "base">>],
        !.urls = [present |-> TRUE,
                  production |-> <<"https://", "linux", ".infotecha.ru">>],
        !.metadata = [present |-> TRUE, difficulty |-> <<"beginner">>,
                      estimated_time |-> UNDEF,
                      tags |-> << <<"linux">> >>, license |-> UNDEF],
        !.status = [present |-> TRUE, lifecycle |-> <<"stable">>, last_updated |-> UNDEF]]

Docker ==
    [EmptyObject EXCEPT !.name = <<"docker">>, !.title = <<"Docker">>,
                        !.version = <<"0.1.0">>,
        !.deployment = [present |-> TRUE, subdomain |-> EmptyStr, repository |-> UNDEF],
        !.metadata = [present |-> TRUE, difficulty |-> <<"advanced">>,
                      estimated_time |-> UNDEF, tags |-> UNDEF,
                      license |-> UNDEF]]

\* The central registry texts of the model.
CentralGarbage == <<"{ \"modules\": ">>
CentralDoc == <<"{\"modules\":{\"hub\":{\"name\":\"hub\"},\"docker\":{\"name\":\"docker\",\"title\":\"Docker (legacy)\",\"subdomain\":\"docker\",\"content_repo\":\"mod_docker\",\"url\":\"https://docker.infotecha.ru\",\"status\":\"active\"}}}">>

CentralTexts == {CentralGarbage, CentralDoc}

CentralHubEntry ==
    [name |-> <<"hub">>, title |-> UNDEF, subdomain |-> UNDEF,
     content_repo |-> UNDEF, url |-> UNDEF, status |-> UNDEF]

CentralDockerEntry ==
    [name |-> <<"docker">>, title |-> <<"Docker (legacy)">>, subdomain |-> <<"docker">>,
     content_repo |-> ModDocker, url |-> <<"https://", "docker", ".infotecha.ru">>,
     status |-> <<"active">>]

\* JSON.parse: the value, or that a SyntaxError is thrown.
JSONParse(text) ==
    CASE text = TextEmptyObject -> [threw |-> FALSE, value |-> EmptyObject]
      [] text = TextLinuxV1 -> [threw |-> FALSE, value |-> LinuxV1]
      [] text = TextLinuxV2 -> [threw |-> FALSE, value |-> LinuxV2]
      [] text = TextDocker -> [threw |-> FALSE, value |-> Docker]
      [] text = TextLinuxFull -> [threw |-> FALSE, value |-> LinuxFull]
      [] text = CentralDoc ->
            [threw |-> FALSE,
             value |-> [modules |-> <<CentralHubEntry, CentralDockerEntry>>]]
      [] OTHER -> [threw |-> TRUE, value |-> <<"SyntaxError">>]

\* Buffer.from(content, 'base64').toString('utf8') of the API's content field
Base64Encode(text) == IF text = EmptyStr THEN EmptyStr ELSE <<"base64", text>>
Base64Decode(content) == content[2]

-----------------------------------------------------------------------------
(* GitHubClient *)

\* No response (req.on('error')), or a response: its status and its body, which
\* is JSON (body is then the value it parses to) or is not.
NetError == [kind |-> "error"]
Http(status, body) == [kind |-> "http", statusCode |-> status, json |-> TRUE, body |-> body]
HttpNotJson(status) ==
    [kind |-> "http", statusCode |-> status, json |-> FALSE, body |-> [text |-> <<"<html>">>]]

\* What the API answers to GET /repos/{org}/{repo}/contents/module.json now.
ContentsAnswer(repo) ==
    IF remote[repo] = Absent
    THEN Http(404, [message |-> <<"Not Found">>])
    ELSE Http(200, [content |-> Base64Encode(remote[repo])])

\* What the API answers to GET /orgs/{org}/repos now.
ReposAnswer == Http(200, [array |-> [i \in 1..Len(orgRepos) |-> [name |-> orgRepos[i]]]])

\* request(path): the promise resolves with the body or rejects.
Request(answer) ==
    IF answer.kind = "error" THEN [rejected |-> TRUE, value |-> <<"request failed">>]
    ELSE IF ~answer.json THEN [rejected |-> TRUE, value |-> <<"Failed to parse">>]
    ELSE IF answer.statusCode >= 400 THEN [rejected |-> TRUE, value |-> <<"API error">>]
    ELSE [rejected |-> FALSE, value |-> answer.body]

StartsWith(s, token) == Len(s) >= 1 /\ s[1] = token

\* getRepositories without its try/catch: the rejection of the request is the
\* rejection of getRepositories.
getRepositoriesNoCatch(answer) ==
    LET r == Request(answer)
    IN  IF r.rejected THEN r
        ELSE [rejected |-> FALSE,
              value |-> SelectSeq(r.value.array, LAMBDA repo : StartsWith(repo.name, "mod_"))]

\* getRepositories(org), given the answer to its request: how its promise settles
getRepositories(answer) ==
    LET r == Request(answer)
    IN  IF r.rejected THEN [rejected |-> FALSE, value |-> <<>>]
        ELSE [rejected |-> FALSE,
              value |-> SelectSeq(r.value.array, LAMBDA repo : StartsWith(repo.name, "mod_"))]

\* getFileContent without its try/catch: what the request rejected with comes
\* out of getFileContent.
getFileContentNoCatch(answer) ==
    LET r == Request(answer)
    IN  IF r.rejected THEN r.value
        ELSE IF "content" \in DOMAIN r.value /\ ~Falsy(r.value.content)
             THEN Base64Decode(r.value.content)
             ELSE UNDEF

\* getFileContent(org, repo, path), given the answer to its request: the text or null
getFileContent(answer) ==
    LET r == Request(answer)
    IN  IF r.rejected THEN UNDEF
        ELSE IF "content" \in DOMAIN r.value /\ ~Falsy(r.value.content)
             THEN Base64Decode(r.value.content)
             ELSE UNDEF

-----------------------------------------------------------------------------
(* ModuleScanner *)

cacheExpiry == 5 * 60 * 1000

CacheKey(name) == <<"module:">> \o name

\* CacheHit with the comparison turned round: an entry is used once it expired.
CacheHitInverted(name) ==
    /\ CacheKey(name) \in DOMAIN cache
    /\ now - cache[CacheKey(name)].timestamp > cacheExpiry

\* CacheHit with <= for <: an entry is still used at the age of cacheExpiry.
CacheHitInclusive(name) ==
    /\ CacheKey(name) \in DOMAIN cache
    /\ now - cache[CacheKey(name)].timestamp <= cacheExpiry

\* cache.get(key) is defined and younger than cacheExpiry (line 179)
CacheHit(name) ==
    /\ CacheKey(name) \in DOMAIN cache
    /\ now - cache[CacheKey(name)].timestamp < cacheExpiry

\* cache.set(key, entry)
CacheSet(key, entry) ==
    [k \in DOMAIN cache \cup {key} |-> IF k = key THEN entry ELSE cache[k]]

\* loadCentralModules()
loadCentralModules ==
    IF central = Absent THEN [modules |-> <<>>]
    ELSE LET p == JSONParse(central)
         IN  IF p.threw THEN [modules |-> <<>>] ELSE p.value

\* Object.values(modules).find(m => m.content_repo === name): the first match
FindCentral(modules, name) ==
    LET hits == SelectSeq(modules, LAMBDA m : m.content_repo = name)
    IN  IF hits = <<>> THEN [found |-> FALSE] ELSE [found |-> TRUE, value |-> hits[1]]

FromModuleJson(data) == [success |-> TRUE, source |-> <<"module.json">>, data |-> data]
FromCentral(data) == [success |-> TRUE, source |-> <<"central">>, data |-> data]
Failed(message) == [success |-> FALSE, error |-> message]

\* ScanOutcome with the two sources tried in the other order: the central registry
\* first, the repository's own descriptor when the registry has no entry.
ScanOutcomeCentralFirst(name, content) ==
    LET centralModule == FindCentral(loadCentralModules.modules, name)
    IN  IF centralModule.found THEN FromCentral(centralModule.value)
        ELSE IF ~Falsy(content)
             THEN LET p == JSONParse(content)
                  IN  IF p.threw THEN Failed(p.value) ELSE FromModuleJson(p.value)
             ELSE Failed(<<"No configuration found">>)

\* ScanOutcome with a catch block that returns { success: false } and drops the
\* error's message.
ScanOutcomeBareCatch(name, content) ==
    IF ~Falsy(content)
    THEN LET p == JSONParse(content)
         IN  IF p.threw THEN [success |-> FALSE] ELSE FromModuleJson(p.value)
    ELSE LET centralModule == FindCentral(loadCentralModules.modules, name)
         IN  IF centralModule.found THEN FromCentral(centralModule.value)
             ELSE Failed(<<"No configuration found">>)

\* scanModule after the await of line 186: what it returns for the fetched content
ScanOutcome(name, content) ==
    IF ~Falsy(content)
    THEN LET p == JSONParse(content)
         IN  IF p.threw THEN Failed(p.value) ELSE FromModuleJson(p.value)
    ELSE LET centralModule == FindCentral(loadCentralModules.modules, name)
         IN  IF centralModule.found THEN FromCentral(centralModule.value)
             ELSE Failed(<<"No configuration found">>)

\* ScanCache of a scanner that caches whatever scanModule resolved to.
ScanCacheAnyOutcome(name, content) ==
    CacheSet(CacheKey(name), [data |-> ScanOutcome(name, content), timestamp |-> now])

\* The cache after scanModule handled the fetched content (lines 188-195).
ScanCache(name, content) ==
    IF ~Falsy(content) /\ ~JSONParse(content).threw
    THEN CacheSet(CacheKey(name),
                  [data |-> FromModuleJson(JSONParse(content).value), timestamp |-> now])
    ELSE cache

\* name.replace(/-/g, '_')
ReplaceDashes(str) == [i \in 1..Len(str) |-> IF str[i] = "-" THEN "_" ELSE str[i]]

\* convertToLegacyFormat throws a TypeError: moduleData.name.replace is evaluated
\* (line 289) with name undefined.
ConvertThrows(moduleData) ==
    /\ Falsy(OptGet(moduleData.deployment, "repository"))
    /\ moduleData.name = UNDEF

\* convertToLegacyFormat(moduleData), when it does not throw
convertToLegacyFormat(moduleData) ==
    [name |-> moduleData.name,
     title |-> moduleData.title,
     subdomain |-> OrElse(OptGet(moduleData.deployment, "subdomain"), moduleData.name),
     repository |-> OrElse(OptGet(moduleData.deployment, "repository"),
                           <<"mod_">> \o ReplaceDashes(moduleData.name)),
     url |-> OrElse(OptGet(moduleData.urls, "production"),
                    <<"https://">> \o moduleData.name \o <<".infotecha.ru">>),
     version |-> moduleData.version,
     type |-> moduleData.type,
     difficulty |-> OptGet(moduleData.metadata, "difficulty"),
     estimated_time |-> OptGet(moduleData.metadata, "estimated_time"),
     tags |-> OrElse(OptGet(moduleData.metadata, "tags"), <<>>),
     lifecycle |-> OptGet(moduleData.status, "lifecycle"),
     last_updated |-> OptGet(moduleData.status, "last_updated"),
     hugo_config |-> moduleData.hugo_config]

\* BuildStep with unshift for push: a new entry goes to the front.
BuildStepUnshift(b, result) ==
    IF result.success
    THEN IF result.source = <<"module.json">>
         THEN IF ConvertThrows(result.data)
              THEN [b EXCEPT !.threw = TRUE]
              ELSE [b EXCEPT !.modules =
                        <<convertToLegacyFormat(result.data) @@ [_source |-> <<"module.json">>]>>
                        \o @]
         ELSE [b EXCEPT !.modules = <<[_source |-> <<"central">>] @@ result.data>> \o @]
    ELSE [b EXCEPT !.log = Append(@, [repository |-> result.repository,
                                       error |-> result.error])]

\* BuildStep with the tag of the first branch put on every entry.
BuildStepOneTag(b, result) ==
    IF result.success
    THEN IF result.source = <<"module.json">>
         THEN IF ConvertThrows(result.data)
              THEN [b EXCEPT !.threw = TRUE]
              ELSE [b EXCEPT !.modules = Append(@,
                        convertToLegacyFormat(result.data) @@ [_source |-> <<"module.json">>])]
         ELSE [b EXCEPT !.modules = Append(@, [_source |-> <<"module.json">>] @@ result.data)]
    ELSE [b EXCEPT !.log = Append(@, [repository |-> result.repository,
                                       error |-> result.error])]

\* One iteration of the loop of generateUnifiedModules (lines 260-275) on the
\* build so far: the modules, the skip warnings, and whether it threw.
BuildStep(b, result) ==
    IF result.success
    THEN IF result.source = <<"module.json">>
         THEN IF ConvertThrows(result.data)
              THEN [b EXCEPT !.threw = TRUE]
              ELSE [b EXCEPT !.modules = Append(@,
                        convertToLegacyFormat(result.data) @@ [_source |-> <<"module.json">>])]
         ELSE [b EXCEPT !.modules = Append(@, [_source |-> <<"central">>] @@ result.data)]
    ELSE [b EXCEPT !.log = Append(@, [repository |-> result.repository,
                                       error |-> result.error])]

\* DataAfterBuild of a build that tags result.data in both branches.
DataAfterBuildTagged(result) ==
    [_source |-> result.source] @@ result.data

\* The object result.data after the iteration for result (lines 262-270): the
\* first branch writes _source on legacyFormat, the object convertToLegacyFormat
\* made; the second writes it on result.data itself.
DataAfterBuild(result) ==
    IF result.source = <<"module.json">> THEN result.data
    ELSE [_source |-> <<"central">>] @@ result.data

RECURSIVE BuildLoop(_, _, _)
BuildLoop(scanResults, i, b) ==
    IF i > Len(scanResults) \/ b.threw THEN b
    ELSE BuildLoop(scanResults, i + 1, BuildStep(b, scanResults[i]))

\* generateUnifiedModules after the await of line 251
BuildUnified(scanResults) ==
    BuildLoop(scanResults, 1, [modules |-> <<>>, log |-> <<>>, threw |-> FALSE])

\* The loop of generateUnifiedModules came to scanResults[i] and through it.
Converted(scanResults, i) ==
    \A j \in 1..i :
        ~(/\ scanResults[j].success
          /\ scanResults[j].source = <<"module.json">>
          /\ ConvertThrows(scanResults[j].data))

\* The cache after generateUnifiedModules went over scanResults.  The data of a
\* result from module.json is the object the cache entry of its repository
\* holds: scanModule caches and returns the same moduleData (lines 189-198), or
\* returns cached.data (line 181), and the spread of line 234 copies the
\* reference.  The data of a result from the central registry is parsed anew
\* by every scan and is in no cache entry.
CacheAfterBuild(scanResults) ==
    [k \in DOMAIN cache |->
        LET hits == {i \in DOMAIN scanResults :
                        /\ scanResults[i].success
                        /\ scanResults[i].source = <<"module.json">>
                        /\ CacheKey(scanResults[i].repository) = k
                        /\ Converted(scanResults, i)}
        IN  IF hits = {} THEN cache[k]
            ELSE [cache[k] EXCEPT !.data.data = DataAfterBuild(scanResults[CHOOSE i \in hits : TRUE])]]

-----------------------------------------------------------------------------
(* ModuleValidator: scripts/validate-module.js, and the schema of module.json *)
(* as docs/MODULE_JSON_SPEC.md lays it down.  Of the fields of a descriptor   *)
(* the model carries those the scanner and the convention checks read; a      *)
(* document of the model stands for one whose other fields are as the schema  *)
(* wants them.                                                                *)

\* The schema's enumerations and formats.
DifficultyEnum == {<<"beginner">>, <<"intermediate">>, <<"advanced">>, <<"expert">>}
LicenseEnum == {<<"MIT">>, <<"Apache-2.0">>, <<"GPL-3.0">>, <<"BSD-3-Clause">>,
                <<"CC-BY-4.0">>, <<"CC-BY-SA-4.0">>}
LifecycleEnum == {<<"development">>, <<"beta">>, <<"stable">>, <<"maintenance">>,
                  <<"deprecated">>}
\* kebab-case: words of lowercase letters and digits joined by dashes
IsKebabCase(str) ==
    /\ str # <<>>
    /\ \A i \in DOMAIN str :
          IF i % 2 = 1 THEN str[i] \in {"linux", "base", "docker", "shell", "admin"}
          ELSE str[i] = "-"
    /\ Len(str) % 2 = 1
\* X.Y.Z
IsVersion(str) == str \in {<<"1.0.0">>, <<"1.1.0">>, <<"0.1.0">>, <<"0.148.0">>, <<"0.147.0">>}
\* mod_ + snake_case
IsModRepository(str) ==
    /\ Len(str) >= 2
    /\ str[1] = "mod_"
    /\ \A i \in 2..Len(str) :
          IF i % 2 = 0 THEN str[i] \in {"linux", "base", "docker"} ELSE str[i] = "_"
    /\ Len(str) % 2 = 0
\* a URI
IsUri(str) == Len(str) >= 2 /\ str[1] = "https://"

\* The errors Ajv reports (verbose: instancePath, keyword, message, data).
MissingProperty(path, property, data) ==
    [instancePath |-> path, keyword |-> "required",
     message |-> <<"must have required property '", property, "'">>, data |-> data]
NotInEnum(path, data) ==
    [instancePath |-> path, keyword |-> "enum",
     message |-> <<"must be equal to one of the allowed values">>, data |-> data]
BadPattern(path, data) ==
    [instancePath |-> path, keyword |-> "pattern",
     message |-> <<"must match pattern">>, data |-> data]
BadFormat(path, data) ==
    [instancePath |-> path, keyword |-> "format",
     message |-> <<"must match format \"uri\"">>, data |-> data]
TooFewItems(path, data) ==
    [instancePath |-> path, keyword |-> "minItems",
     message |-> <<"must NOT have fewer than 1 items">>, data |-> data]

\* The errors of one field: it is required, and when present it must pass.
FieldErrors(parentPath, parent, property, value, passes, error) ==
    IF value = UNDEF THEN <<MissingProperty(parentPath, property, parent)>>
    ELSE IF ~passes THEN <<error>>
    ELSE <<>>

\* The errors of a section: it is required, and when present its fields are checked.
SectionErrors(moduleData, section, errors) ==
    IF ~moduleData[section].present
    THEN <<MissingProperty("", section, moduleData)>>
    ELSE errors

\* Every violation of the schema by a document, in the order of the schema.
SchemaErrors(moduleData) ==
    FieldErrors("", moduleData, "name", moduleData.name,
                IsKebabCase(moduleData.name), BadPattern("/name", moduleData.name))
    \o FieldErrors("", moduleData, "title", moduleData.title, TRUE,
                   BadPattern("/title", moduleData.title))
    \o FieldErrors("", moduleData, "version", moduleData.version,
                   IsVersion(moduleData.version), BadPattern("/version", moduleData.version))
    \o SectionErrors(moduleData, "deployment",
          FieldErrors("/deployment", moduleData.deployment, "subdomain",
                      moduleData.deployment.subdomain,
                      IsKebabCase(moduleData.deployment.subdomain),
                      BadPattern("/deployment/subdomain", moduleData.deployment.subdomain))
          \o FieldErrors("/deployment", moduleData.deployment, "repository",
                         moduleData.deployment.repository,
                         IsModRepository(moduleData.deployment.repository),
                         BadPattern("/deployment/repository",
                                    moduleData.deployment.repository)))
    \o SectionErrors(moduleData, "hugo_config",
          FieldErrors("/hugo_config", moduleData.hugo_config, "hugo_version",
                      moduleData.hugo_config.hugo_version,
                      IsVersion(moduleData.hugo_config.hugo_version),
                      BadPattern("/hugo_config/hugo_version",
                                 moduleData.hugo_config.hugo_version)))
    \o SectionErrors(moduleData, "metadata",
          (IF moduleData.metadata.license # UNDEF
              /\ moduleData.metadata.license \notin LicenseEnum
           THEN <<NotInEnum("/metadata/license", moduleData.metadata.license)>>
           ELSE <<>>)
          \o FieldErrors("/metadata", moduleData.metadata, "difficulty",
                         moduleData.metadata.difficulty,
                         moduleData.metadata.difficulty \in DifficultyEnum,
                         NotInEnum("/metadata/difficulty", moduleData.metadata.difficulty))
          \o FieldErrors("/metadata", moduleData.metadata, "tags",
                         moduleData.metadata.tags,
                         Len(moduleData.metadata.tags) >= 1,
                         TooFewItems("/metadata/tags", moduleData.metadata.tags)))
    \o SectionErrors(moduleData, "urls",
          FieldErrors("/urls", moduleData.urls, "production", moduleData.urls.production,
                      IsUri(moduleData.urls.production),
                      BadFormat("/urls/production", moduleData.urls.production)))
    \o SectionErrors(moduleData, "status",
          FieldErrors("/status", moduleData.status, "lifecycle", moduleData.status.lifecycle,
                      moduleData.status.lifecycle \in LifecycleEnum,
                      NotInEnum("/status/lifecycle", moduleData.status.lifecycle)))

\* validate compiled without allErrors: Ajv returns at the first violation.
validateFirstError(moduleData) ==
    LET all == SchemaErrors(moduleData)
    IN  [valid |-> all = <<>>, errors |-> IF all = <<>> THEN <<>> ELSE <<all[1]>>]

\* this.validate(moduleData), compiled by new Ajv({allErrors: true, verbose: true}):
\* the verdict, and validate.errors
validate(moduleData) ==
    LET all == SchemaErrors(moduleData)
    IN  [valid |-> all = <<>>, errors |-> all]

\* One check of performSemanticValidation: the warning pushed, or none.
Warn(failed, warning) == IF failed THEN <<warning>> ELSE <<>>

PinnedHugoVersion == <<"0.148.0">>

\* performSemanticValidation with the tag check off by one: length <= 3.
performSemanticValidationTagsInclusive(moduleData) ==
    LET expectedRepo == <<"mod_">> \o ReplaceDashes(moduleData.name)
        expectedUrl == <<"https://">> \o moduleData.name \o <<".infotecha.ru">>
    IN  Warn(OptGet(moduleData.deployment, "subdomain") # moduleData.name,
             <<"Subdomain doesn't match module name">>)
        \o Warn(OptGet(moduleData.deployment, "repository") # expectedRepo,
                <<"Repository name doesn't follow convention">>)
        \o Warn(OptGet(moduleData.urls, "production") # expectedUrl,
                <<"Production URL doesn't match expected format">>)
        \o Warn(Falsy(OptGet(moduleData.metadata, "license")),
                <<"License not specified - consider adding one">>)
        \o Warn(~Falsy(OptGet(moduleData.hugo_config, "hugo_version"))
                    /\ moduleData.hugo_config.hugo_version # PinnedHugoVersion,
                <<"Hugo version differs from current platform version 0.148.0">>)
        \o Warn(OptGet(moduleData.metadata, "tags") # UNDEF
                    /\ Len(moduleData.metadata.tags) <= 3,
                <<"Consider adding more tags (3-5 recommended) for better categorization">>)

\* performSemanticValidation throws a TypeError: moduleData.name.replace is
\* evaluated (line 124) with name undefined.
SemanticThrows(moduleData) == moduleData.name = UNDEF

\* performSemanticValidation(moduleData), when it does not throw: the warnings.
\* An array is truthy also when empty (line 146).
performSemanticValidation(moduleData) ==
    LET expectedRepo == <<"mod_">> \o ReplaceDashes(moduleData.name)
        expectedUrl == <<"https://">> \o moduleData.name \o <<".infotecha.ru">>
    IN  Warn(OptGet(moduleData.deployment, "subdomain") # moduleData.name,
             <<"Subdomain doesn't match module name">>)
        \o Warn(OptGet(moduleData.deployment, "repository") # expectedRepo,
                <<"Repository name doesn't follow convention">>)
        \o Warn(OptGet(moduleData.urls, "production") # expectedUrl,
                <<"Production URL doesn't match expected format">>)
        \o Warn(Falsy(OptGet(moduleData.metadata, "license")),
                <<"License not specified - consider adding one">>)
        \o Warn(~Falsy(OptGet(moduleData.hugo_config, "hugo_version"))
                    /\ moduleData.hugo_config.hugo_version # PinnedHugoVersion,
                <<"Hugo version differs from current platform version 0.148.0">>)
        \o Warn(OptGet(moduleData.metadata, "tags") # UNDEF
                    /\ Len(moduleData.metadata.tags) < 3,
                <<"Consider adding more tags (3-5 recommended) for better categorization">>)

\* The lines validateModule logs for one schema error (lines 93-97): its path
\* and message, and its data, which Ajv defines for every error above.
ErrorLines(error) ==
    <<[level |-> "error",
       text |-> <<IF error.instancePath = "" THEN "root" ELSE error.instancePath>>
                \o <<": ">> \o error.message],
      [level |-> "error", text |-> <<"    Current value">>]>>

RECURSIVE AllErrorLines(_, _)
AllErrorLines(errors, i) ==
    IF i > Len(errors) THEN <<>>
    ELSE ErrorLines(errors[i]) \o AllErrorLines(errors, i + 1)

\* validateModule that fails a document with warnings.
validateModuleStrict(moduleData) ==
    LET checked == validate(moduleData)
    IN  IF ~checked.valid
        THEN [done |-> TRUE, raised |-> FALSE, returned |-> FALSE,
              isValid |-> FALSE, errors |-> checked.errors,
              semantic |-> FALSE, warnings |-> <<>>,
              logged |-> <<[level |-> "error", text |-> <<"Schema validation failed">>]>>
                         \o AllErrorLines(checked.errors, 1)]
        ELSE IF SemanticThrows(moduleData)
        THEN [done |-> TRUE, raised |-> TRUE, returned |-> FALSE,
              isValid |-> TRUE, errors |-> <<>>,
              semantic |-> TRUE, warnings |-> <<>>, logged |-> <<>>]
        ELSE LET warnings == performSemanticValidation(moduleData)
             IN  [done |-> TRUE, raised |-> FALSE, returned |-> warnings = <<>>,
                  isValid |-> TRUE, errors |-> <<>>,
                  semantic |-> TRUE, warnings |-> warnings,
                  logged |-> [i \in 1..Len(warnings) |->
                                [level |-> "warning", text |-> warnings[i]]]
                             \o <<[level |-> "success", text |-> <<"passed validation">>]>>]

\* validateModule(moduleData, moduleName) (lines 84-110): what validate said,
\* whether performSemanticValidation ran and its warnings, the lines logged
\* after the first, and the value returned.
validateModule(moduleData) ==
    LET checked == validate(moduleData)
    IN  IF ~checked.valid
        THEN [done |-> TRUE, raised |-> FALSE, returned |-> FALSE,
              isValid |-> FALSE, errors |-> checked.errors,
              semantic |-> FALSE, warnings |-> <<>>,
              logged |-> <<[level |-> "error", text |-> <<"Schema validation failed">>]>>
                         \o AllErrorLines(checked.errors, 1)]
        ELSE IF SemanticThrows(moduleData)
        THEN [done |-> TRUE, raised |-> TRUE, returned |-> FALSE,
              isValid |-> TRUE, errors |-> <<>>,
              semantic |-> TRUE, warnings |-> <<>>, logged |-> <<>>]
        ELSE LET warnings == performSemanticValidation(moduleData)
             IN  [done |-> TRUE, raised |-> FALSE, returned |-> TRUE,
                  isValid |-> TRUE, errors |-> <<>>,
                  semantic |-> TRUE, warnings |-> warnings,
                  logged |-> [i \in 1..Len(warnings) |->
                                [level |-> "warning", text |-> warnings[i]]]
                             \o <<[level |-> "success", text |-> <<"passed validation">>]>>]

\* One iteration of the loop of validateAllModules (lines 315-323) on the
\* validation results so far, and whether validateModule threw.
ValidationStep(v, result) ==
    IF result.success /\ result.source = <<"module.json">>
    THEN LET outcome == validateModule(result.data)
         IN  IF outcome.raised THEN [v EXCEPT !.threw = TRUE]
             ELSE [v EXCEPT !.results = Append(@, [repository |-> result.repository,
                                                   valid |-> outcome.returned])]
    ELSE v

RECURSIVE ValidationLoop(_, _, _)
ValidationLoop(scanResults, i, v) ==
    IF i > Len(scanResults) \/ v.threw THEN v
    ELSE ValidationLoop(scanResults, i + 1, ValidationStep(v, scanResults[i]))

\* validateAllModules after the await of line 312
validateAllModules(scanResults) ==
    ValidationLoop(scanResults, 1, [results |-> <<>>, threw |-> FALSE])

\* The exit code when one valid module is enough: results.some(r => r.valid).
ExitCodeSome(validationResults) ==
    IF \E i \in DOMAIN validationResults : validationResults[i].valid THEN 0 ELSE 1

\* main --validate (lines 381-382): process.exit(allValid ? 0 : 1)
ExitCode(validationResults) ==
    IF \A i \in DOMAIN validationResults : validationResults[i].valid THEN 0 ELSE 1

-----------------------------------------------------------------------------
(* ModulesLoader: the loader of the landing page, and the documents it is served *)

maxRetries == 3
\* setTimeout(() => this.loadModules(), 2000)
RetryDelayMs == 2000

NoPlatform == [present |-> FALSE, domain |-> UNDEF]

\* The unified catalog of a build, as response.json() gives it to the loader:
\* generateUnifiedModules writes no platform.
Unified(scanResults) ==
    [platform |-> NoPlatform, modules |-> BuildUnified(scanResults).modules]

\* The central registry as the landing page is served it: the platform and its modules.
Registry(modules) ==
    [platform |-> [present |-> TRUE, domain |-> <<"infotecha.ru">>], modules |-> modules]

\* The documents /modules.json may hold: the central registry, with modules and
\* without, and the unified catalogs of some scans.
NCatalogs == 6
ScanOf(k) ==
    CASE k = 3 -> <<[repository |-> ModLinuxBase] @@ FromModuleJson(LinuxFull)>>
      [] k = 4 -> <<[repository |-> ModDocker] @@ FromCentral(CentralDockerEntry)>>
      [] k = 5 -> <<[repository |-> ModLinuxBase] @@ FromModuleJson(LinuxFull),
                    [repository |-> ModDocker] @@ FromCentral(CentralDockerEntry)>>
      [] OTHER -> <<>>
Catalog(k) ==
    CASE k = 1 -> Registry(<<CentralHubEntry, CentralDockerEntry>>)
      [] k = 2 -> Registry(<<>>)
      [] OTHER -> Unified(ScanOf(k))

\* module.status === 'active' (line 62)
IsActive(module) == "status" \in DOMAIN module /\ module.status = <<"active">>

\* renderModules(data): the view it shows, "courses" or "empty", or "throws":
\* the comparator of sort reads name of every active module (line 63), and
\* data.platform.domain is read once there is an active module (line 71).
renderModules(data) ==
    IF data.modules = <<>> THEN "empty"
    ELSE LET activeModules == SelectSeq(data.modules, IsActive)
         IN  IF activeModules = <<>> THEN "empty"
             ELSE IF /\ Len(activeModules) >= 2
                     /\ \E i \in DOMAIN activeModules : activeModules[i].name = UNDEF
                  THEN "throws"
             ELSE IF ~data.platform.present THEN "throws"
             ELSE "courses"

\* loadModules() up to its await (lines 27-37): showLoading, and the fetch is sent.
loadModules(l) ==
    [l EXCEPT !.view = "loading",
              !.attempts = @ + 1,
              !.pending = Append(@, [kind |-> "fetch", id |-> l.attempts + 1, delay |-> 0])]

\* handleError with <= for <: one retry more.
handleErrorInclusive(l, id) ==
    IF l.retryCount + 1 <= maxRetries
    THEN [l EXCEPT !.retryCount = @ + 1,
                   !.timers = @ + 1,
                   !.pending = Append(@, [kind |-> "timer", id |-> id, delay |-> RetryDelayMs])]
    ELSE [l EXCEPT !.retryCount = @ + 1, !.view = "error", !.decidedBy = id]

\* handleError showing the error view while its retry is scheduled.
handleErrorAndShow(l, id) ==
    IF l.retryCount + 1 < maxRetries
    THEN [l EXCEPT !.retryCount = @ + 1,
                   !.timers = @ + 1,
                   !.view = "error",
                   !.pending = Append(@, [kind |-> "timer", id |-> id, delay |-> RetryDelayMs])]
    ELSE [l EXCEPT !.retryCount = @ + 1, !.view = "error", !.decidedBy = id]

\* handleError(error) in the load id (lines 167-177): a retry is scheduled, or
\* the error view shown.
handleError(l, id) ==
    IF l.retryCount + 1 < maxRetries
    THEN [l EXCEPT !.retryCount = @ + 1,
                   !.timers = @ + 1,
                   !.pending = Append(@, [kind |-> "timer", id |-> id, delay |-> RetryDelayMs])]
    ELSE [l EXCEPT !.retryCount = @ + 1, !.view = "error", !.decidedBy = id]

\* The loads and timers pending, without the i-th.
Settled(pending, i) == SubSeq(pending, 1, i - 1) \o SubSeq(pending, i + 1, Len(pending))

\* AfterFetch of a loader that resets retryCount before it renders.
AfterFetchResetFirst(l, id, outcome) ==
    IF outcome = "ok"
    THEN LET view == renderModules(Catalog(l.served))
         IN  IF view = "throws"
             THEN handleError([l EXCEPT !.last = "threw", !.retryCount = 0], id)
             ELSE [l EXCEPT !.view = view, !.decidedBy = id, !.retryCount = 0,
                            !.last = view]
    ELSE handleError([l EXCEPT !.last = "failed"], id)

\* loadModules() of the load id after its awaits (lines 39-52), the fetch having
\* settled: no response, a status that is not ok, a body that is not JSON, or
\* the document.
AfterFetch(l, id, outcome) ==
    IF outcome = "ok"
    THEN LET view == renderModules(Catalog(l.served))
         IN  IF view = "throws"
             THEN handleError([l EXCEPT !.last = "threw"], id)
             ELSE [l EXCEPT !.view = view, !.decidedBy = id, !.retryCount = 0,
                            !.last = view]
    ELSE handleError([l EXCEPT !.last = "failed"], id)

-----------------------------------------------------------------------------
(* The state machine *)

NoReturn == [kind |-> "none"]
\* net.state: "sent", then "answered" (the response is on its way or waits for the
\* event loop), then "done" (the awaiting function resumed with it).
\* net.outstanding counts the requests sent and not answered yet, net.sent the
\* requests sent since scanAllModules was last entered.
NoRequest ==
    [kind |-> "none", repo |-> UNDEF, state |-> "none", sentAt |-> 0, answer |-> NetError,
     outstanding |-> 0, sent |-> 0]
SendRequest(kind, repo) ==
    [kind |-> kind, repo |-> repo, state |-> "sent", sentAt |-> now, answer |-> NetError,
     outstanding |-> net.outstanding + 1, sent |-> net.sent + 1]

\* No generateUnifiedModules call has been followed by another.
NoBuild == [ret |-> NoReturn, failed |-> FALSE, failing |-> FALSE]

\* The request n got something else than the API's answer: no response (lines
\* 102-104), or, for the listing, an error status or a body that is not JSON
\* (lines 90-99).  A 404 for a module.json is the API's answer.
RequestFailed(n) ==
    \/ n.answer.kind = "error"
    \/ n.kind = "list" /\ (n.answer.statusCode >= 400 \/ ~n.answer.json)

\* No validateModule call has been made.
NotValidated == [done |-> FALSE]

\* No landing page is open.
NoLoader ==
    [view |-> "none", retryCount |-> 0, pending |-> <<>>, attempts |-> 0, timers |-> 0,
     clicks |-> 0, stray |-> FALSE, settled |-> 0, decidedBy |-> 0, last |-> "none", served |-> 0]

\* The listings the API may return: the hub, then the module repositories in any order.
Listings ==
    {<<Hub>> \o s : s \in {t \in [1..Cardinality(Mods) -> Mods] :
                                \A i, j \in DOMAIN t : t[i] = t[j] => i = j}}

\* The scanner as constructed (lines 149-153), in some environment.
Fresh ==
    /\ now = 0
    /\ remote \in [Mods -> {Absent} \cup ModuleTexts]
    /\ central \in {Absent} \cup CentralTexts
    /\ cache = <<>>
    /\ pc = "idle"
    /\ op = "none"
    /\ moduleName = UNDEF
    /\ net = NoRequest
    /\ repos = <<>>
    /\ idx = 1
    /\ results = <<>>
    /\ ret = NoReturn
    /\ log = <<>>
    /\ calls = [r \in Mods |-> <<>>]
    /\ lastEdit = [r \in Mods |-> -1]
    /\ nOps = 0
    /\ nEdits = 0
    /\ document = EmptyObject
    /\ validation = NotValidated
    /\ loader = NoLoader
    /\ lastBuilt = NoBuild

Init == Fresh /\ orgRepos \in Listings

InitScan == Fresh /\ orgRepos = <<Hub>>

LastTwo(s) == IF Len(s) > 2 THEN Tail(s) ELSE s

\* scanModule returns result to its caller: the CLI's --module branch (or a test),
\* or the loop of scanAllModules (lines 233-237).
ScanReturn(caller, name, result, fetched, start) ==
    /\ calls' = [calls EXCEPT ![name] =
                     LastTwo(Append(@, [start |-> start, end |-> now, fetched |-> fetched,
                                        source |-> IF result.success THEN result.source
                                                   ELSE UNDEF]))]
    /\ moduleName' = UNDEF
    /\ IF caller = "scanModule"
       THEN /\ ret' = [kind |-> "scanModule", name |-> name, raised |-> FALSE,
                       value |-> result]
            /\ pc' = "idle"
            /\ op' = "none"
            /\ UNCHANGED <<results, idx>>
       ELSE /\ results' = Append(results, [repository |-> name] @@ result)
            /\ idx' = idx + 1
            /\ pc' = "loop"
            /\ op' = caller
            /\ UNCHANGED ret

\* scanModule(name) up to its await (lines 173-186): answered from the cache, or
\* the descriptor is requested.
ScanEnter(caller, name, pending) ==
    IF CacheHit(name)
    THEN /\ ScanReturn(caller, name, cache[CacheKey(name)].data, FALSE, now)
         /\ UNCHANGED net
    ELSE /\ net' = SendRequest("file", name)
         /\ moduleName' = name
         /\ pc' = "fetching"
         /\ op' = caller
         /\ ret' = pending
         /\ UNCHANGED <<results, idx, calls>>

\* A caller invokes scanModule(name) on the scanner.
CallScanModule(name) ==
    /\ pc = "idle"
    /\ nOps < MaxOps
    /\ nOps' = nOps + 1
    /\ ScanEnter("scanModule", name, NoReturn)
    /\ log' = <<>>
    /\ UNCHANGED <<lastBuilt, now, remote, central, orgRepos, document, validation, loader, cache, repos, lastEdit, nEdits>>

\* What comes back for the outstanding request: the API's answer to it, no
\* response, an error status of the API, a body that is not JSON, or (for a
\* file) a response whose content field is empty or missing.
Answer(outcome) ==
    CASE outcome = "error" -> NetError
      [] outcome = "status" -> Http(403, [message |-> <<"API rate limit exceeded">>])
      [] outcome = "notjson" -> HttpNotJson(502)
      [] outcome = "empty" -> Http(200, [content |-> EmptyStr])
      [] outcome = "nocontent" -> Http(200, [type |-> <<"submodule">>])
      [] OTHER -> IF net.kind = "file" THEN ContentsAnswer(net.repo) ELSE ReposAnswer

Answered(outcomes) ==
    /\ net.state = "sent"
    /\ \E outcome \in outcomes :
           net' = [net EXCEPT !.state = "answered",
                              !.outstanding = @ - 1,
                              !.answer = Answer(outcome)]

\* The API answers the outstanding request, or the request fails.
ServerAnswer ==
    /\ Answered(IF net.kind = "list" THEN {"ok", "error", "status", "notjson"}
                ELSE {"ok", "error"})
    /\ UNCHANGED <<lastBuilt, now, remote, central, orgRepos, document, validation, loader, cache, pc, op, moduleName, repos, idx,
                   results, ret, log, calls, lastEdit, nOps, nEdits>>

\* ServerAnswer, with the history of the failed requests kept.
ServerAnswerNoted ==
    /\ Answered(IF net.kind = "list" THEN {"ok", "error", "status", "notjson"}
                ELSE {"ok", "error"})
    /\ lastBuilt' = [lastBuilt EXCEPT !.failing = @ \/ RequestFailed(net')]
    /\ UNCHANGED <<now, remote, central, orgRepos, document, validation, loader, cache, pc, op, moduleName, repos, idx,
                   results, ret, log, calls, lastEdit, nOps, nEdits>>

\* ScanResume of a scanner that retries: after a request without response the
\* descriptor is requested again (while the run has sent two requests at most).
ScanResumeRetry ==
    /\ pc = "fetching"
    /\ net.state = "answered"
    /\ IF net.answer.kind = "error" /\ net.sent <= 2
       THEN /\ net' = SendRequest("file", moduleName)
            /\ UNCHANGED <<cache, moduleName, pc, op, ret, results, idx, calls>>
       ELSE /\ LET content == getFileContent(net.answer)
               IN  /\ cache' = ScanCache(moduleName, content)
                   /\ ScanReturn(op, moduleName, ScanOutcome(moduleName, content), TRUE,
                                 net.sentAt)
            /\ net' = [net EXCEPT !.state = "done"]
    /\ UNCHANGED <<lastBuilt, now, remote, central, orgRepos, document, validation, loader, repos, log, lastEdit, nOps, nEdits>>

\* ScanResume of a scanner whose requests time out: scanModule also resumes,
\* as after a failed request, while the response is still outstanding.
ScanResumeOnTimeout ==
    /\ pc = "fetching"
    /\ net.state \in {"sent", "answered"}
    /\ LET content == IF net.state = "sent" THEN UNDEF ELSE getFileContent(net.answer)
       IN  /\ cache' = ScanCache(moduleName, content)
           /\ ScanReturn(op, moduleName, ScanOutcome(moduleName, content), TRUE, net.sentAt)
    /\ net' = [net EXCEPT !.state = "done"]
    /\ UNCHANGED <<lastBuilt, now, remote, central, orgRepos, document, validation, loader, repos, log, lastEdit, nOps, nEdits>>

\* scanModule resumes after the await of line 186 (lines 188-217).
ScanResume ==
    /\ pc = "fetching"
    /\ net.state = "answered"
    /\ LET content == getFileContent(net.answer)
       IN  /\ cache' = ScanCache(moduleName, content)
           /\ ScanReturn(op, moduleName, ScanOutcome(moduleName, content), TRUE, net.sentAt)
    /\ net' = [net EXCEPT !.state = "done"]
    /\ UNCHANGED <<lastBuilt, now, remote, central, orgRepos, document, validation, loader, repos, log, lastEdit, nOps, nEdits>>

\* generateUnifiedModules() is entered: scanAllModules requests the listing
\* (lines 251, 223-227).
EnterGenerate ==
    /\ pc = "idle"
    /\ nOps < MaxOps
    /\ nOps' = nOps + 1
    /\ op' = "generate"
    /\ pc' = "listing"
    /\ net' = [SendRequest("list", UNDEF) EXCEPT !.sent = 1]
    /\ repos' = <<>>
    /\ results' = <<>>
    /\ idx' = 1
    /\ ret' = NoReturn
    /\ log' = <<>>
    /\ UNCHANGED <<now, remote, central, orgRepos, document, validation, loader, cache, moduleName, calls, lastEdit, nEdits>>

\* A caller invokes generateUnifiedModules().
CallGenerate == EnterGenerate /\ UNCHANGED lastBuilt

\* CallGenerate, with the history of the call before kept.
CallGenerateNoted ==
    /\ EnterGenerate
    /\ lastBuilt' = [ret |-> ret, failed |-> lastBuilt.failing, failing |-> FALSE]

\* scanAllModules resumes with the listing (lines 227-230).
ListResume ==
    /\ pc = "listing"
    /\ net.state = "answered"
    /\ LET listing == getRepositories(net.answer)
       IN  repos' = IF listing.rejected THEN <<>> ELSE listing.value
    /\ pc' = "loop"
    /\ net' = [net EXCEPT !.state = "done"]
    /\ UNCHANGED <<lastBuilt, now, remote, central, orgRepos, document, validation, loader, cache, op, moduleName, idx, results,
                   ret, log, calls, lastEdit, nOps, nEdits>>

\* LoopResumed without the await of line 233: the loop runs on while the scan it
\* started is still waiting for its response.
LoopResumedNoAwait == pc \in {"loop", "fetching"}

\* The for loop of scanAllModules stands between two iterations: the scan it
\* awaited (line 233) has returned.
LoopResumed == pc = "loop"

\* LoopOver of a loop that a failed scan ends: the failure is recorded and the
\* remaining repositories are left out.
LoopOverAtFailure ==
    \/ idx > Len(repos)
    \/ results # <<>> /\ ~results[Len(results)].success

\* for (const repo of repos) has no repository left (line 232).
LoopOver == idx > Len(repos)

\* The next iteration of the loop of scanAllModules (lines 232-233).
LoopScan ==
    /\ LoopResumed
    /\ ~LoopOver
    /\ ScanEnter(op, repos[idx].name, ret)
    /\ UNCHANGED <<lastBuilt, now, remote, central, orgRepos, document, validation, loader, cache, repos, log, lastEdit, nOps, nEdits>>

\* The loop is over: scanAllModules returns and generateUnifiedModules builds the
\* catalog (lines 240, 253-277), or raises what convertToLegacyFormat threw.
GenerateReturn ==
    /\ pc = "loop"
    /\ op = "generate"
    /\ LoopOver
    /\ LET b == BuildUnified(results)
       IN  /\ log' = b.log
           /\ ret' = IF b.threw
                     THEN [kind |-> "generate", raised |-> TRUE, value |-> <<"TypeError">>]
                     ELSE [kind |-> "generate", raised |-> FALSE,
                           value |-> [version |-> <<"2.0">>, generated_at |-> now,
                                      build_system |-> <<"hybrid">>,
                                      modules |-> b.modules]]
    /\ cache' = CacheAfterBuild(results)
    /\ pc' = "idle"
    /\ op' = "none"
    /\ UNCHANGED <<lastBuilt, now, remote, central, orgRepos, document, validation, loader, moduleName, net, repos, idx,
                   results, calls, lastEdit, nOps, nEdits>>

\* The environment is observed between the first call and the last return, and
\* not within a synchronous run of the program.  A request reaches the API as
\* soon as it is sent; what takes time is the way back.
Observed ==
    /\ nOps > 0
    /\ pc = "idle" => nOps < MaxOps
    /\ pc # "loop"
    /\ net.state # "sent"

\* Time passes, by TickMs.
Tick ==
    /\ now < MaxTicks * TickMs
    /\ Observed
    /\ now' = now + TickMs
    /\ UNCHANGED <<lastBuilt, remote, central, orgRepos, document, validation, loader, cache, pc, op, moduleName, net, repos, idx,
                   results, ret, log, calls, lastEdit, nOps, nEdits>>

\* What the owner of a repository pushes next: a repaired, a completed, a newer descriptor.
NextText(text) ==
    CASE text = TextGarbage -> TextDocker
      [] text = TextEmptyObject -> TextLinuxV1
      [] text = TextLinuxV1 -> TextLinuxV2
      [] OTHER -> text

\* The owner of a repository pushes another module.json.
Edit(repo) ==
    /\ nEdits < MaxEdits
    /\ Observed
    /\ NextText(remote[repo]) # remote[repo]
    /\ remote' = [remote EXCEPT ![repo] = NextText(@)]
    /\ lastEdit' = [lastEdit EXCEPT ![repo] = now]
    /\ nEdits' = nEdits + 1
    /\ UNCHANGED <<lastBuilt, now, central, orgRepos, document, validation, loader, cache, pc, op, moduleName, net, repos, idx,
                   results, ret, log, calls, nOps>>

\* A caller invokes getFileContent(org, repo, 'module.json') on a GitHubClient
\* (lines 129-131).
CallGetFileContent(repo) ==
    /\ pc = "idle"
    /\ nOps < MaxOps
    /\ nOps' = nOps + 1
    /\ op' = "getFileContent"
    /\ pc' = "client"
    /\ net' = SendRequest("file", repo)
    /\ ret' = NoReturn
    /\ UNCHANGED <<lastBuilt, now, remote, central, orgRepos, document, validation, loader, cache, moduleName, repos, idx, results,
                   log, calls, lastEdit, nEdits>>

\* Whatever can come back comes back for the client's request.
ClientAnswer ==
    /\ Answered({"ok", "error", "status", "notjson", "empty", "nocontent"})
    /\ UNCHANGED <<lastBuilt, now, remote, central, orgRepos, document, validation, loader, cache, pc, op, moduleName, repos, idx,
                   results, ret, log, calls, lastEdit, nOps, nEdits>>

\* getFileContent resumes after its await (lines 131-141) and returns.
ClientResume ==
    /\ pc = "client"
    /\ net.state = "answered"
    /\ ret' = [kind |-> "getFileContent", raised |-> FALSE,
               value |-> getFileContent(net.answer)]
    /\ net' = [net EXCEPT !.state = "done"]
    /\ pc' = "idle"
    /\ op' = "none"
    /\ UNCHANGED <<lastBuilt, now, remote, central, orgRepos, document, validation, loader, cache, moduleName, repos, idx, results,
                   log, calls, lastEdit, nOps, nEdits>>

\* The CLI is run with --validate (lines 372-375): validateAllModules calls
\* scanAllModules, which requests the listing.
CallValidateAll ==
    /\ pc = "idle"
    /\ nOps < MaxOps
    /\ nOps' = nOps + 1
    /\ op' = "validate"
    /\ pc' = "listing"
    /\ net' = [SendRequest("list", UNDEF) EXCEPT !.sent = 1]
    /\ repos' = <<>>
    /\ results' = <<>>
    /\ idx' = 1
    /\ ret' = NoReturn
    /\ log' = <<>>
    /\ UNCHANGED <<lastBuilt, now, remote, central, orgRepos, document, validation, loader, cache, moduleName, calls, lastEdit, nEdits>>

\* The loop is over: scanAllModules returns, validateAllModules validates the
\* results (lines 312-326) and main exits (lines 377-382), or with what
\* validateModule threw (lines 436-439).
ValidateReturn ==
    /\ pc = "loop"
    /\ op = "validate"
    /\ LoopOver
    /\ LET v == validateAllModules(results)
       IN  ret' = IF v.threw
                  THEN [kind |-> "validate", raised |-> TRUE, value |-> <<>>, exit |-> 1]
                  ELSE [kind |-> "validate", raised |-> FALSE, value |-> v.results,
                        exit |-> ExitCode(v.results)]
    /\ pc' = "exited"
    /\ op' = "none"
    /\ UNCHANGED <<lastBuilt, now, remote, central, orgRepos, document, validation, loader, cache, moduleName, net, repos, idx,
                   results, log, calls, lastEdit, nOps, nEdits>>

\* The fetch of a load settles (lines 32-43) and loadModules runs on to its end.
FetchSettles(i, outcome) ==
    /\ i \in DOMAIN loader.pending
    /\ loader.pending[i].kind = "fetch"
    /\ loader' = AfterFetch([loader EXCEPT !.pending = Settled(@, i), !.settled = @ + 1],
                            loader.pending[i].id, outcome)
    /\ UNCHANGED <<lastBuilt, now, remote, central, orgRepos, document, validation, cache, pc, op, moduleName, net,
                   repos, idx, results, ret, log, calls, lastEdit, nOps, nEdits>>

\* A retry timer fires (line 172): loadModules().
TimerFires(i) ==
    /\ i \in DOMAIN loader.pending
    /\ loader.pending[i].kind = "timer"
    /\ loader' = loadModules([loader EXCEPT !.pending = Settled(@, i)])
    /\ UNCHANGED <<lastBuilt, now, remote, central, orgRepos, document, validation, cache, pc, op, moduleName, net,
                   repos, idx, results, ret, log, calls, lastEdit, nOps, nEdits>>

\* The retry button is clicked (line 23): loadModules().
Click ==
    /\ loader.clicks < MaxClicks
    /\ loader' = loadModules([loader EXCEPT !.clicks = @ + 1,
                                            !.stray = @ \/ loader.view # "error"])
    /\ UNCHANGED <<lastBuilt, now, remote, central, orgRepos, document, validation, cache, pc, op, moduleName, net,
                   repos, idx, results, ret, log, calls, lastEdit, nOps, nEdits>>

\* A caller invokes validateModule(moduleData, moduleName) on a ModuleValidator.
ValidateModule ==
    /\ ~validation.done
    /\ validation' = validateModule(document)
    /\ UNCHANGED <<lastBuilt, now, remote, central, orgRepos, cache, pc, op, moduleName, net, repos,
                   idx, results, ret, log, calls, lastEdit, nOps, nEdits, document, loader>>

\* The catalog builds of a scanner: generateUnifiedModules(), again and again,
\* while time passes.
Next ==
    \/ CallGenerate
    \/ ServerAnswer
    \/ ListResume
    \/ LoopScan
    \/ ScanResume
    \/ GenerateReturn
    \/ Tick

Spec == Init /\ [][Next]_vars

\* The catalog builds of a scanner, each compared with the one before.
NextRepeat ==
    \/ CallGenerateNoted
    \/ ServerAnswerNoted
    \/ ListResume
    \/ LoopScan
    \/ ScanResume
    \/ GenerateReturn
    \/ Tick

SpecRepeat == Init /\ [][NextRepeat]_vars

\* Time passes between two builds.
Wait == pc = "idle" /\ Tick

NextLive ==
    \/ CallGenerate
    \/ ServerAnswer
    \/ ListResume
    \/ LoopScan
    \/ ScanResume
    \/ GenerateReturn
    \/ Wait

\* The catalog builds when every request completes, with a response or an error
\* (the callbacks of lines 82 and 105), and the event loop runs every
\* continuation that is ready.
progress == <<pc, idx, net.state>>
SpecLive ==
    /\ Init
    /\ [][NextLive]_vars
    /\ WF_progress(ServerAnswer)
    /\ WF_progress(ListResume)
    /\ WF_progress(LoopScan)
    /\ WF_progress(ScanResume)
    /\ WF_progress(GenerateReturn)

\* The single scans of a scanner: scanModule(name), again and again, while time
\* passes and the repositories' owners push.
NextScan ==
    \/ \E name \in Mods : CallScanModule(name)
    \/ ServerAnswer
    \/ ScanResume
    \/ Tick
    \/ \E repo \in Mods : Edit(repo)

SpecScan == InitScan /\ [][NextScan]_vars

\* The file lookups of a GitHubClient: getFileContent(org, repo, 'module.json'),
\* again and again.
NextClient ==
    \/ \E repo \in Mods : CallGetFileContent(repo)
    \/ ClientAnswer
    \/ ClientResume

SpecClient == InitScan /\ [][NextClient]_vars

\* The scanner of a --validate run, in some environment: among the descriptors
\* of the repositories there are such that pass the schema.
ValidatedTexts == {TextGarbage, TextLinuxV2, TextLinuxFull}
InitValidateAll ==
    /\ now = 0
    /\ remote \in [Mods -> {Absent} \cup ValidatedTexts]
    /\ central \in {Absent, CentralDoc}
    /\ orgRepos \in Listings
    /\ cache = <<>>
    /\ pc = "idle"
    /\ op = "none"
    /\ moduleName = UNDEF
    /\ net = NoRequest
    /\ repos = <<>>
    /\ idx = 1
    /\ results = <<>>
    /\ ret = NoReturn
    /\ log = <<>>
    /\ calls = [r \in Mods |-> <<>>]
    /\ lastEdit = [r \in Mods |-> -1]
    /\ nOps = 0
    /\ nEdits = 0
    /\ document = EmptyObject
    /\ validation = NotValidated
    /\ loader = NoLoader
    /\ lastBuilt = NoBuild

\* A run of the CLI with --validate.
NextValidateAll ==
    \/ CallValidateAll
    \/ ServerAnswer
    \/ ListResume
    \/ LoopScan
    \/ ScanResume
    \/ ValidateReturn

SpecValidateAll == InitValidateAll /\ [][NextValidateAll]_vars

\* The landing page as loaded: new ModulesLoader() has run init() and with it
\* loadModules() up to its await (lines 7-37); /modules.json holds some document.
InitLoader ==
    /\ now = 0
    /\ remote = [r \in Mods |-> Absent]
    /\ central = Absent
    /\ orgRepos = <<Hub>>
    /\ cache = <<>>
    /\ pc = "idle"
    /\ op = "none"
    /\ moduleName = UNDEF
    /\ net = NoRequest
    /\ repos = <<>>
    /\ idx = 1
    /\ results = <<>>
    /\ ret = NoReturn
    /\ log = <<>>
    /\ calls = [r \in Mods |-> <<>>]
    /\ lastEdit = [r \in Mods |-> -1]
    /\ nOps = 0
    /\ nEdits = 0
    /\ document = EmptyObject
    /\ validation = NotValidated
    /\ lastBuilt = NoBuild
    /\ \E k \in 1..NCatalogs : loader = loadModules([NoLoader EXCEPT !.served = k])

\* What a fetch comes to: no response, a status that is not ok, a body that is
\* not JSON, or the document.
FetchOutcomes == {"offline", "status", "notjson", "ok"}

\* The landing page, its retry button clicked at any time.
NextLoader ==
    \/ \E i \in DOMAIN loader.pending, outcome \in FetchOutcomes : FetchSettles(i, outcome)
    \/ \E i \in DOMAIN loader.pending : TimerFires(i)
    \/ Click

SpecLoader == InitLoader /\ [][NextLoader]_vars

\* A ModuleValidator as constructed, and the document it is given: a descriptor
\* of linux-base, each field as the conventions want it, or different, or
\* against the schema, or missing; or a descriptor of the scanner's repositories.
InitValidate ==
    /\ now = 0
    /\ remote = [r \in Mods |-> Absent]
    /\ central = Absent
    /\ orgRepos = <<Hub>>
    /\ cache = <<>>
    /\ pc = "idle"
    /\ op = "none"
    /\ moduleName = UNDEF
    /\ net = NoRequest
    /\ repos = <<>>
    /\ idx = 1
    /\ results = <<>>
    /\ ret = NoReturn
    /\ log = <<>>
    /\ calls = [r \in Mods |-> <<>>]
    /\ lastEdit = [r \in Mods |-> -1]
    /\ nOps = 0
    /\ nEdits = 0
    /\ \/ \E version \in {<<"1.0.0">>, UNDEF},
              difficulty \in {<<"beginner">>, <<"unknown">>},
              subdomain \in {LinuxBaseName, <<"linux">>},
              repository \in {<<"mod_", "linux", "_", "base">>, <<"mod_", "linux">>},
              production \in {<<"https://", "linux", "-", "base", ".infotecha.ru">>,
                              <<"https://", "linux", ".infotecha.ru">>},
              license \in {UNDEF, <<"MIT">>},
              hugo_version \in {<<"0.148.0">>, <<"0.147.0">>, UNDEF},
              n \in -1..MaxTags :
                document = Descriptor(version, difficulty, subdomain, repository,
                                      production, license, hugo_version, Tags(n))
       \/ \E text \in {TextEmptyObject, TextLinuxV1, TextLinuxV2, TextDocker} :
                document = JSONParse(text).value
    /\ validation = NotValidated
    /\ loader = NoLoader
    /\ lastBuilt = NoBuild

\* The validations of a ModuleValidator: validateModule(moduleData).
NextValidate == ValidateModule

SpecValidate == InitValidate /\ [][NextValidate]_vars

-----------------------------------------------------------------------------
(* Properties of the catalog build (Spec) *)

\* A build returned a catalog.
Built == ret.kind = "generate" /\ ~ret.raised

\* The results of the last scan that succeeded, resp. failed, in scan order.
Succeeded == SelectSeq(results, LAMBDA r : r.success)
Skipped == SelectSeq(results, LAMBDA r : ~r.success)

\* The catalog entry a successful result stands for.
EntryOf(result) ==
    IF result.source = <<"module.json">>
    THEN convertToLegacyFormat(result.data) @@ [_source |-> <<"module.json">>]
    ELSE [_source |-> <<"central">>] @@ result.data

\* The position of a repository in the listing.
ListedAt(name) == CHOOSE i \in DOMAIN orgRepos : orgRepos[i] = name

\* The text the last descriptor request brought, if it is done.
Fetched == getFileContent(net.answer)
FetchedJson ==
    /\ net.kind = "file"
    /\ net.state = "done"
    /\ ~Falsy(Fetched)
    /\ ~JSONParse(Fetched).threw

\* C1. Partial-failure isolation: whatever repositories fail to resolve, a build
\* does not raise; its catalog has one entry per repository that resolved and
\* none for a failed one, and every failed repository is logged as skipped with
\* its reason.
C1_PartialFailureIsolation ==
    ret.kind = "generate" =>
        /\ ~ret.raised
        /\ Len(ret.value.modules) = Len(Succeeded)
        /\ log = [k \in 1..Len(Skipped) |->
                    [repository |-> Skipped[k].repository, error |-> Skipped[k].error]]
        /\ \A k \in DOMAIN results :
              (/\ getFileContent(ContentsAnswer(results[k].repository)) = UNDEF
               /\ ~FindCentral(loadCentralModules.modules, results[k].repository).found
               /\ ~results[k].success)
              => results[k].error = <<"No configuration found">>

\* C3. Uniqueness: the names of the entries of a catalog are pairwise distinct.
C3_Uniqueness ==
    Built => \A i, j \in DOMAIN ret.value.modules :
                ret.value.modules[i].name = ret.value.modules[j].name => i = j

\* C4. Fallback precedence: a module.json that was fetched and parses makes the
\* result of its repository one of source 'module.json', and the catalog entry
\* of such a result is tagged 'module.json', whatever the central registry
\* holds for the repository.
C4_FallbackPrecedence ==
    /\ FetchedJson =>
          /\ \E k \in DOMAIN results : results[k].repository = net.repo
          /\ \A k \in DOMAIN results :
                results[k].repository = net.repo =>
                    /\ results[k].success
                    /\ results[k].source = <<"module.json">>
                    /\ results[k].data = JSONParse(Fetched).value
    /\ Built =>
          /\ Len(ret.value.modules) = Len(Succeeded)
          /\ \A k \in DOMAIN Succeeded :
                ret.value.modules[k]._source = Succeeded[k].source

\* A catalog has an entry tagged 'module.json' for mod_docker, fetched in this
\* build, while the central registry has an entry for mod_docker too.
C4_Witness ==
    /\ Built
    /\ central = CentralDoc
    /\ FetchedJson
    /\ net.repo = ModDocker
    /\ \E k \in DOMAIN Succeeded :
          /\ Succeeded[k].repository = ModDocker
          /\ ret.value.modules[k]._source = <<"module.json">>
          /\ ret.value.modules[k].name # CentralDockerEntry.name

\* C8. Ordering: the repositories are scanned in the order of the listing, one
\* result each, and the catalog holds the entries of the successful results in
\* that order.
C8_ListingOrder ==
    /\ \A i, j \in DOMAIN repos :
          i < j => ListedAt(repos[i].name) < ListedAt(repos[j].name)
    /\ Len(results) <= Len(repos)
    /\ \A i \in DOMAIN results : results[i].repository = repos[i].name
    /\ Built => ret.value.modules = [k \in 1..Len(Succeeded) |-> EntryOf(Succeeded[k])]

\* A catalog of two entries, of mod_docker and of mod_linux_base, listed in this order.
C8_Witness ==
    /\ Built
    /\ ListedAt(ModDocker) < ListedAt(ModLinuxBase)
    /\ Len(results) = 2
    /\ Len(ret.value.modules) = 2
    /\ ret.value.modules[1].name = <<"docker">>
    /\ ret.value.modules[2].name = <<"linux", "-", "base">>

\* C9. Conversion never fails: convertToLegacyFormat throws for no value a
\* module.json parses to, so no build raises.
C9_ConversionNeverFails ==
    /\ \A k \in DOMAIN results :
          (results[k].success /\ results[k].source = <<"module.json">>)
              => ~ConvertThrows(results[k].data)
    /\ ret.kind = "generate" => ~ret.raised

\* C10. Subdomain derivation: the entry's subdomain is the descriptor's
\* deployment.subdomain when that is present, whatever its value, and the
\* descriptor's name when it is absent.
C10_SubdomainDerivation ==
    (Built /\ Len(ret.value.modules) = Len(Succeeded)) =>
        \A k \in DOMAIN Succeeded :
            Succeeded[k].source = <<"module.json">> =>
                ret.value.modules[k].subdomain =
                    IF OptGet(Succeeded[k].data.deployment, "subdomain") # UNDEF
                    THEN Succeeded[k].data.deployment.subdomain
                    ELSE Succeeded[k].data.name

\* An entry of the catalog without its provenance tag.
Untagged(entry) == [f \in DOMAIN entry \ {"_source"} |-> entry[f]]

\* C11. Provenance: every entry of a returned catalog carries a _source tag,
\* 'module.json' or 'central', the source of the scan result it came from; the
\* entry of a module.json result is the converted descriptor, the entry of a
\* central result is the entry of the central registry for its repository,
\* nothing changed but the tag added.
C11_Provenance ==
    Built =>
        /\ Len(ret.value.modules) = Len(Succeeded)
        /\ \A k \in DOMAIN Succeeded :
              LET entry == ret.value.modules[k]
                  result == Succeeded[k]
              IN  /\ "_source" \in DOMAIN entry
                  /\ entry._source \in {<<"module.json">>, <<"central">>}
                  /\ entry._source = result.source
                  /\ result.source = <<"module.json">> =>
                        Untagged(entry) = convertToLegacyFormat(result.data)
                  /\ result.source = <<"central">> =>
                        \E i \in DOMAIN JSONParse(central).value.modules :
                            /\ JSONParse(central).value.modules[i].content_repo
                                    = result.repository
                            /\ Untagged(entry) = JSONParse(central).value.modules[i]

\* A catalog of two entries, the first converted from the module.json of
\* mod_linux_base, the second the central registry's entry for mod_docker.
C11_Witness ==
    /\ Built
    /\ Len(ret.value.modules) = 2
    /\ ret.value.modules[1]._source = <<"module.json">>
    /\ ret.value.modules[1].name = <<"linux", "-", "base">>
    /\ ret.value.modules[2]._source = <<"central">>
    /\ ret.value.modules[2].content_repo = ModDocker

\* C12. Sequential scan: at most one request is outstanding at any moment, and
\* only while the scan is suspended in an await; while the listing is awaited
\* nothing has been resolved; while the descriptor of the repository at idx is
\* awaited, exactly the repositories before it have their results; and the
\* cache is written only by the resolution that is in progress, for its own
\* repository, as it completes.
C12_SequentialScan ==
    /\ [](/\ net.outstanding <= 1
          /\ net.outstanding = 1 => (pc \in {"listing", "fetching"} /\ net.state = "sent")
          /\ pc = "listing" =>
                (net.kind = "list" /\ repos = <<>> /\ results = <<>> /\ idx = 1)
          /\ pc = "fetching" =>
                /\ net.kind = "file"
                /\ net.state \in {"sent", "answered"}
                /\ idx \in DOMAIN repos
                /\ net.repo = repos[idx].name
                /\ moduleName = repos[idx].name
                /\ Len(results) = idx - 1)
    /\ [][cache' # cache =>
            /\ pc = "fetching" /\ pc' = "loop"
            /\ net.outstanding = 0
            /\ Len(results') = Len(results) + 1
            /\ idx' = idx + 1
            /\ DOMAIN cache' = DOMAIN cache \cup {CacheKey(moduleName)}
            /\ \A k \in DOMAIN cache : k # CacheKey(moduleName) => cache'[k] = cache[k]]_vars

\* The descriptor of the second repository is awaited: the first has its result
\* and its cache entry, and one request is outstanding.
C12_Witness ==
    /\ pc = "fetching"
    /\ idx = 2
    /\ Len(results) = 1
    /\ CacheKey(repos[1].name) \in DOMAIN cache
    /\ net.outstanding = 1

\* The last descriptor request of the scan failed in transport: no response came.
TransportFailed ==
    /\ net.kind = "file"
    /\ net.state = "done"
    /\ net.answer.kind = "error"

\* The listing request of the last scan failed: no response, an error status,
\* or a body that is not JSON.
ListingFailed ==
    /\ net.kind = "list"
    /\ net.state \in {"answered", "done"}
    /\ \/ net.answer.kind = "error"
       \/ net.answer.statusCode >= 400
       \/ ~net.answer.json

\* C16. Listing failure is not fatal: when the listing request fails,
\* getRepositories resolves to the empty sequence, scanAllModules returns no
\* result and generateUnifiedModules returns a catalog of zero modules; nothing
\* is raised.
C16_ListingFailureNotFatal ==
    ListingFailed =>
        /\ getRepositories(net.answer) = [rejected |-> FALSE, value |-> <<>>]
        /\ repos = <<>>
        /\ results = <<>>
        /\ pc \in {"listing", "loop", "idle"}
        /\ pc = "idle" =>
              /\ Built
              /\ ret.value.modules = <<>>
              /\ log = <<>>

\* A build whose listing was refused with an error status returned an empty catalog.
C16_Witness ==
    /\ ListingFailed
    /\ net.answer.kind = "http"
    /\ net.answer.statusCode >= 400
    /\ pc = "idle"
    /\ Built
    /\ ret.value.modules = <<>>

\* C15. Transport error means skip: a repository whose descriptor request
\* failed in transport gets a failed result, is logged as skipped and has no
\* entry in the catalog, and the scan goes on to the remaining repositories.
C15_TransportErrorSkips ==
    TransportFailed =>
        /\ \E k \in DOMAIN results : results[k].repository = net.repo
        /\ \A k \in DOMAIN results :
              results[k].repository = net.repo => ~results[k].success
        /\ pc \in {"loop", "fetching", "idle"}
        /\ Built => \E i \in DOMAIN log : log[i].repository = net.repo

-----------------------------------------------------------------------------
(* Properties of the single scans (SpecScan) *)

\* The last scanModule call for a repository, and the one before.
Last(name) == calls[name][Len(calls[name])]
Previous(name) == calls[name][Len(calls[name]) - 1]

\* The caller holds the result of a scanModule call.
Scanned == ret.kind = "scanModule"

\* C2. A module.json that is fetched but does not parse is handled like an
\* absent one: scanModule returns what the central fallback yields.
C2_UnparsableIsAbsent ==
    (/\ Scanned
     /\ Last(ret.name).fetched
     /\ net.state = "done"
     /\ ~Falsy(Fetched)
     /\ JSONParse(Fetched).threw)
    => ret.value = ScanOutcome(ret.name, UNDEF)

\* C13. Typed outcomes: scanModule does not reject; what it returns is one of
\* {success: true, source: 'module.json', data}, {success: true, source:
\* 'central', data} and {success: false, error: <string>}, whatever the fetch,
\* the parse and the central lookup came to.
C13_TypedOutcomes ==
    Scanned =>
        /\ ~ret.raised
        /\ "success" \in DOMAIN ret.value
        /\ IF ret.value.success
           THEN /\ DOMAIN ret.value = {"success", "source", "data"}
                /\ ret.value.source \in {<<"module.json">>, <<"central">>}
           ELSE /\ DOMAIN ret.value = {"success", "error"}
                /\ ret.value.error \in {<<"No configuration found">>, <<"SyntaxError">>}

\* A scan whose fetched module.json did not parse returned a failed result
\* carrying the parser's message.
C13_Witness ==
    /\ Scanned
    /\ Last(ret.name).fetched
    /\ net.state = "done"
    /\ Fetched = TextGarbage
    /\ ~ret.value.success
    /\ ret.value.error = <<"SyntaxError">>

\* C14. A malformed central registry is fatal: when the central modules.json
\* exists and does not parse, a scan that reaches the fallback step raises and
\* returns no result.
C14_MalformedCentralIsFatal ==
    (/\ Scanned
     /\ Last(ret.name).fetched
     /\ net.state = "done"
     /\ Falsy(Fetched)
     /\ central = CentralGarbage)
    => ret.raised

\* C5 as claimed. For every module, the first two scanModule calls, made within
\* cacheExpiry of each other, issue exactly one fetch.
C5_TwoCallsOneFetch ==
    \A name \in Mods :
        (/\ nOps = 2
         /\ Len(calls[name]) = 2
         /\ Last(name).start - Previous(name).start < cacheExpiry)
        => (Previous(name).fetched /\ ~Last(name).fetched)

\* C5 as amended. When a call fetched the descriptor and resolved from it, the
\* next call for the module, started less than cacheExpiry after the first
\* returned, fetches nothing and returns the cached result; when a call resolved
\* from the central registry or failed, the next call fetches again.
C5_CacheHitSkipsFetch ==
    \A name \in Mods :
        Len(calls[name]) = 2 =>
            /\ (/\ Previous(name).fetched
                /\ Previous(name).source = <<"module.json">>
                /\ Last(name).start - Previous(name).end < cacheExpiry)
               => /\ ~Last(name).fetched
                  /\ Last(name).source = <<"module.json">>
                  /\ (Scanned /\ ret.name = name)
                        => ret.value = cache[CacheKey(name)].data
            /\ Previous(name).source # <<"module.json">> => Last(name).fetched

\* A second call, later than the first and within cacheExpiry, that was answered
\* from the cache.
C5_Witness ==
    \E name \in Mods :
        /\ Len(calls[name]) = 2
        /\ Previous(name).fetched
        /\ Previous(name).source = <<"module.json">>
        /\ Last(name).start > Previous(name).end
        /\ ~Last(name).fetched
        /\ Scanned /\ ret.name = name

\* C6. Cache expiry forces refetch: a call is answered from the cache only by an
\* entry younger than cacheExpiry; a call made when the entry of the call before
\* has reached that age fetches again; and a refetch that resolves from
\* module.json leaves the entry holding its result, stamped with the time of
\* its return.
C6_ExpiryForcesRefetch ==
    \A name \in Mods :
        /\ (Len(calls[name]) >= 1 /\ ~Last(name).fetched) =>
              /\ CacheKey(name) \in DOMAIN cache
              /\ Last(name).start - cache[CacheKey(name)].timestamp < cacheExpiry
        /\ (/\ Len(calls[name]) = 2
            /\ Previous(name).fetched
            /\ Previous(name).source = <<"module.json">>
            /\ Last(name).start - Previous(name).end >= cacheExpiry)
           => Last(name).fetched
        /\ (/\ Len(calls[name]) >= 1
            /\ Last(name).fetched
            /\ Last(name).source = <<"module.json">>)
           => /\ CacheKey(name) \in DOMAIN cache
              /\ cache[CacheKey(name)].timestamp = Last(name).end
              /\ (Scanned /\ ret.name = name)
                    => cache[CacheKey(name)].data = ret.value

\* A call made when the entry was exactly cacheExpiry old, the descriptor never
\* edited: it fetched, and the entry carries the new stamp.
C6_Witness ==
    \E name \in Mods :
        /\ Len(calls[name]) = 2
        /\ Previous(name).fetched
        /\ Previous(name).source = <<"module.json">>
        /\ Last(name).start - Previous(name).end = cacheExpiry
        /\ lastEdit[name] = -1
        /\ Last(name).fetched
        /\ Last(name).source = <<"module.json">>
        /\ cache[CacheKey(name)].timestamp = Last(name).end
        /\ cache[CacheKey(name)].timestamp > Previous(name).end

\* C7. Freshness bound: a scanModule call made cacheExpiry or more after the
\* last edit of the module's descriptor, and resolved from module.json, returns
\* the edited descriptor.
C7_FreshnessBound ==
    (/\ Scanned
     /\ ret.value.success
     /\ ret.value.source = <<"module.json">>
     /\ lastEdit[ret.name] >= 0
     /\ Last(ret.name).start >= lastEdit[ret.name] + cacheExpiry)
    => (/\ remote[ret.name] # Absent
        /\ ~JSONParse(remote[ret.name]).threw
        /\ ret.value.data = JSONParse(remote[ret.name]).value)

-----------------------------------------------------------------------------
(* Properties of the file lookups (SpecClient) *)

\* C17. getFileContent never throws: it resolves to the decoded text of the file
\* for a response of status below 400 whose JSON body has a non-empty content
\* field, and to null for everything else: a 404, a response without content,
\* a failed request, an error status, a body that is not JSON.
C17_FetchFileNeverThrows ==
    ret.kind = "getFileContent" =>
        /\ ~ret.raised
        /\ IF /\ net.answer.kind = "http"
              /\ net.answer.json
              /\ net.answer.statusCode < 400
              /\ "content" \in DOMAIN net.answer.body
              /\ net.answer.body.content # EmptyStr
           THEN ret.value = remote[net.repo]
           ELSE ret.value = UNDEF

\* A lookup answered with 404 resolved to null.
C17_Witness ==
    /\ ret.kind = "getFileContent"
    /\ net.answer.kind = "http"
    /\ net.answer.statusCode = 404
    /\ remote[net.repo] = Absent
    /\ ret.value = UNDEF

-----------------------------------------------------------------------------
(* Properties of the validator (SpecValidate) *)

\* The warning lines validateModule logged.
WarningLines == SelectSeq(validation.logged, LAMBDA line : line.level = "warning")

C19_ConventionChecks ==
    (validation.done /\ validation.isValid) =>
        validation.warnings =
            Warn(document.deployment.subdomain # document.name,
                 <<"Subdomain doesn't match module name">>)
            \o Warn(document.deployment.repository
                        # <<"mod_">> \o ReplaceDashes(document.name),
                    <<"Repository name doesn't follow convention">>)
            \o Warn(document.urls.production
                        # <<"https://">> \o document.name \o <<".infotecha.ru">>,
                    <<"Production URL doesn't match expected format">>)
            \o Warn(document.metadata.license = UNDEF,
                    <<"License not specified - consider adding one">>)
            \o Warn(document.hugo_config.hugo_version # <<"0.148.0">>,
                    <<"Hugo version differs from current platform version 0.148.0">>)
            \o Warn(Len(document.metadata.tags) < 3,
                    <<"Consider adding more tags (3-5 recommended) for better categorization">>)

\* A descriptor that passes the schema and fails all six checks but the last,
\* having exactly three tags: five warnings.
C19_Witness ==
    /\ validation.done
    /\ validation.isValid
    /\ Len(document.metadata.tags) = 3
    /\ Len(validation.warnings) = 5

\* The violations of the schema a document has, counted from the document:
\* required fields and sections that are missing, values outside their
\* enumeration, values against their pattern or format, arrays too short.
Sections == {"deployment", "urls", "metadata", "status", "hugo_config"}
MissingAtRoot == {f \in {"name", "title", "version"} : document[f] = UNDEF}
MissingSections == {s \in Sections : ~document[s].present}
NestedFields ==
    {<<"deployment", "subdomain">>, <<"deployment", "repository">>,
     <<"urls", "production">>, <<"metadata", "difficulty">>, <<"metadata", "tags">>,
     <<"status", "lifecycle">>, <<"hugo_config", "hugo_version">>}
MissingNested ==
    {sf \in NestedFields : document[sf[1]].present /\ document[sf[1]][sf[2]] = UNDEF}
Given(section, field) == document[section].present /\ document[section][field] # UNDEF
OutsideEnum ==
    {sf \in {<<"metadata", "difficulty">>, <<"metadata", "license">>,
             <<"status", "lifecycle">>} :
        /\ Given(sf[1], sf[2])
        /\ document[sf[1]][sf[2]] \notin
              (CASE sf[2] = "difficulty" -> DifficultyEnum
                 [] sf[2] = "license" -> LicenseEnum
                 [] OTHER -> LifecycleEnum)}
AgainstPattern ==
    {f \in {"name", "version"} :
        /\ document[f] # UNDEF
        /\ ~(IF f = "name" THEN IsKebabCase(document[f]) ELSE IsVersion(document[f]))}
    \cup {sf[2] : sf \in {sf \in {<<"deployment", "subdomain">>,
                                   <<"deployment", "repository">>,
                                   <<"urls", "production">>,
                                   <<"hugo_config", "hugo_version">>} :
        /\ Given(sf[1], sf[2])
        /\ ~(CASE sf[2] = "subdomain" -> IsKebabCase(document[sf[1]][sf[2]])
                [] sf[2] = "repository" -> IsModRepository(document[sf[1]][sf[2]])
                [] sf[2] = "production" -> IsUri(document[sf[1]][sf[2]])
                [] OTHER -> IsVersion(document[sf[1]][sf[2]]))}}
TooShort == IF Given("metadata", "tags") /\ Len(document.metadata.tags) < 1 THEN 1 ELSE 0
Violations ==
    Cardinality(MissingAtRoot) + Cardinality(MissingSections) + Cardinality(MissingNested)
    + Cardinality(OutsideEnum) + Cardinality(AgainstPattern) + TooShort

\* validate.errors has an error of this keyword at this path (for a missing
\* property: naming it).
Reported(path, keyword, property) ==
    \E i \in DOMAIN validation.errors :
        /\ validation.errors[i].instancePath = path
        /\ validation.errors[i].keyword = keyword
        /\ keyword = "required" => validation.errors[i].message[2] = property

\* C20. Structural validation is exhaustive: validate reports every violation
\* of the schema the document has, not the first one only, and the document
\* is valid exactly when it has none; validateModule logs every error and
\* returns false.  A descriptor without version whose metadata.difficulty is
\* "unknown" gets both errors.
C20_StructuralExhaustive ==
    validation.done =>
        /\ validation.isValid = (Violations = 0)
        /\ Len(validation.errors) = Violations
        /\ \A f \in MissingAtRoot : Reported("", "required", f)
        /\ \A s \in MissingSections : Reported("", "required", s)
        /\ \A i, j \in DOMAIN validation.errors :
              (/\ validation.errors[i].instancePath = validation.errors[j].instancePath
               /\ validation.errors[i].message = validation.errors[j].message) => i = j
        /\ ~validation.isValid =>
              /\ ~validation.returned
              /\ \A i \in DOMAIN validation.errors :
                    \E k \in DOMAIN validation.logged :
                        validation.logged[k] = ErrorLines(validation.errors[i])[1]
        /\ (document.version = UNDEF /\ Given("metadata", "difficulty")
                /\ document.metadata.difficulty = <<"unknown">>) =>
              /\ Reported("", "required", "version")
              /\ Reported("/metadata/difficulty", "enum", "")

\* The descriptor without version and of difficulty "unknown", otherwise as the
\* schema wants it: two errors.
C20_Witness ==
    /\ validation.done
    /\ document.version = UNDEF
    /\ document.metadata.difficulty = <<"unknown">>
    /\ Len(validation.errors) = 2
    /\ ~validation.returned

-----------------------------------------------------------------------------
(* Properties of the --validate run (SpecValidateAll) *)

\* The scan results that come from a module.json.
DescriptorResults ==
    SelectSeq(results, LAMBDA r : r.success /\ r.source = <<"module.json">>)

\* C21. --validate: the results validated are exactly the successful scan
\* results that come from a module.json, one verdict for each in the order of
\* the scan, none for a result from the central registry or a failed one; and
\* the exit code is 0 if and only if every validated module passes the schema,
\* and 1 otherwise.
C21_ValidateMode ==
    ret.kind = "validate" =>
        /\ ~ret.raised
        /\ Len(ret.value) = Len(DescriptorResults)
        /\ \A i \in DOMAIN ret.value :
              /\ ret.value[i].repository = DescriptorResults[i].repository
              /\ ret.value[i].valid = (SchemaErrors(DescriptorResults[i].data) = <<>>)
        /\ ret.exit \in {0, 1}
        /\ ret.exit = 0 <=>
              \A i \in DOMAIN DescriptorResults :
                  SchemaErrors(DescriptorResults[i].data) = <<>>

\* A run that validated two modules, one passing and one not, and exited with 1.
C21_Witness ==
    /\ ret.kind = "validate"
    /\ Len(results) = 2
    /\ Len(ret.value) = 2
    /\ ret.value[1].valid
    /\ ~ret.value[2].valid
    /\ ret.exit = 1

-----------------------------------------------------------------------------
(* More properties of the catalog builds (Spec) *)

\* The names of the mod_* repositories of the organization, in the order of the API.
ListedModules == SelectSeq(orgRepos, LAMBDA name : StartsWith(name, "mod_"))

\* C22. scanAllModules returns one result for each repository the listing
\* returned: as many, in the same order, each with the name of its repository,
\* whatever the outcomes; a failed scan is recorded as a failed result and the
\* repositories after it are scanned all the same.
C22_OneResultPerRepository ==
    /\ op = "generate" /\ pc \in {"loop", "fetching"} =>
          /\ Len(results) = idx - 1
          /\ \A i \in DOMAIN results : results[i].repository = repos[i].name
    /\ ret.kind = "generate" /\ pc = "idle" =>
          /\ Len(results) = Len(repos)
          /\ \A i \in DOMAIN results : results[i].repository = repos[i].name
          /\ repos # <<>> => [i \in DOMAIN repos |-> repos[i].name] = ListedModules

\* A build whose first scan failed and whose second succeeded.
C22_Witness ==
    /\ ret.kind = "generate"
    /\ pc = "idle"
    /\ Len(results) = 2
    /\ ~results[1].success
    /\ results[2].success

-----------------------------------------------------------------------------
(* More properties of the single scans (SpecScan) *)

\* C23. The cache after any sequence of scanModule calls: every entry holds a
\* successful result from a module.json, under the key of one module name (so
\* one entry per module at most); a result from the central registry and a
\* failed result are never cached: each call that returns one has fetched.
C23_CacheContent ==
    /\ \A key \in DOMAIN cache :
          /\ cache[key].data.success
          /\ cache[key].data.source = <<"module.json">>
          /\ Cardinality({name \in Mods : CacheKey(name) = key}) = 1
    /\ Cardinality(DOMAIN cache) <= Cardinality(Mods)
    /\ \A name \in Mods : \A i \in DOMAIN calls[name] :
          calls[name][i].source # <<"module.json">> => calls[name][i].fetched

\* A module was resolved from the central registry twice in a row, fetching
\* both times.
C23_Witness ==
    \E name \in Mods :
        /\ Len(calls[name]) = 2
        /\ calls[name][1].source = <<"central">> /\ calls[name][1].fetched
        /\ calls[name][2].source = <<"central">> /\ calls[name][2].fetched
        /\ CacheKey(name) \notin DOMAIN cache

\* The fields of the entry that convertToLegacyFormat is to make of a descriptor,
\* other than name, title and subdomain.
RemainingFields(entry, moduleData) ==
    /\ entry.repository =
          IF OptGet(moduleData.deployment, "repository") # UNDEF
          THEN moduleData.deployment.repository
          ELSE <<"mod_">> \o ReplaceDashes(moduleData.name)
    /\ entry.url =
          IF OptGet(moduleData.urls, "production") # UNDEF
          THEN moduleData.urls.production
          ELSE <<"https://">> \o moduleData.name \o <<".infotecha.ru">>
    /\ entry.tags =
          IF OptGet(moduleData.metadata, "tags") # UNDEF
          THEN moduleData.metadata.tags
          ELSE <<>>
    /\ entry.version = moduleData.version
    /\ entry.type = moduleData.type
    /\ entry.difficulty = OptGet(moduleData.metadata, "difficulty")
    /\ entry.estimated_time = OptGet(moduleData.metadata, "estimated_time")
    /\ entry.lifecycle = OptGet(moduleData.status, "lifecycle")
    /\ entry.last_updated = OptGet(moduleData.status, "last_updated")
    /\ entry.hugo_config = moduleData.hugo_config

\* C26. Conversion of the remaining fields: for every descriptor that a scan
\* found, convertToLegacyFormat makes an entry whose repository is
\* deployment.repository, else 'mod_' + name with every '-' replaced by '_';
\* whose url is urls.production, else https://{name}.infotecha.ru; whose tags
\* are metadata.tags, else empty; and whose version, type, difficulty,
\* estimated_time, lifecycle, last_updated and hugo_config are the descriptor's.
C26_RemainingFields ==
    (ret.kind = "generate" /\ pc = "idle") =>
        \A k \in DOMAIN Succeeded :
            Succeeded[k].source = <<"module.json">> =>
                /\ ~ret.raised
                /\ Len(ret.value.modules) = Len(Succeeded)
                /\ RemainingFields(ret.value.modules[k], Succeeded[k].data)

-----------------------------------------------------------------------------
(* The requests of a catalog build (Spec) *)

\* The scans of the running build that sent a request, as the call history has them.
FetchedScans ==
    {i \in DOMAIN results :
        LET history == calls[results[i].repository]
        IN  history[Len(history)].fetched}

\* The cache has an entry for the module that is younger than five minutes.
FreshEntry(name) ==
    /\ CacheKey(name) \in DOMAIN cache
    /\ now - cache[CacheKey(name)].timestamp < cacheExpiry

\* C24. The requests of one scanAllModules run: one for the listing, and for
\* each repository of the listing one for its descriptor when the cache has no
\* fresh entry and none when it has; no request is sent again after it failed.
C24_RequestBudget ==
    /\ [](op \in {"generate", "none"} /\ pc \in {"listing", "loop", "fetching", "idle"}
            /\ nOps > 0 =>
            /\ net.sent = 1 + Cardinality(FetchedScans)
                            + (IF pc = "fetching" THEN 1 ELSE 0)
            /\ net.sent <= 1 + Len(results) + (IF pc = "fetching" THEN 1 ELSE 0)
            /\ net.outstanding <= 1)
    /\ [][pc = "loop" /\ ~LoopOver =>
            /\ FreshEntry(repos[idx].name) => net'.sent = net.sent /\ idx' = idx + 1
            /\ ~FreshEntry(repos[idx].name) =>
                  /\ net'.sent = net.sent + 1
                  /\ net'.kind = "file"
                  /\ net'.repo = repos[idx].name]_vars
    /\ [][pc = "fetching" => net'.sent = net.sent /\ (pc' = "loop" => idx' = idx + 1)]_vars

\* A build of two repositories whose first descriptor request failed: three
\* requests in all.
C24_Witness ==
    /\ ret.kind = "generate"
    /\ pc = "idle"
    /\ Len(results) = 2
    /\ ~results[1].success
    /\ net.sent = 3

-----------------------------------------------------------------------------
(* Termination of a catalog build (SpecLive) *)

\* C25. If every request completes, a build that was started returns, having
\* resolved every repository of the listing; and there is no timeout: while a
\* request is outstanding nothing but its completion moves the scan on, so that
\* no later repository is resolved before it.
C25_Termination ==
    /\ (pc = "listing") ~>
          (pc = "idle" /\ ret.kind = "generate" /\ Len(results) = Len(repos))
    /\ [][net.state = "sent" =>
            /\ net'.state \in {"sent", "answered"}
            /\ pc' = pc
            /\ idx' = idx
            /\ Len(results') = Len(results)
            /\ ret' = ret]_vars

\* The second build of a scanner returned after resolving two repositories.
C25_Witness ==
    /\ nOps = 2
    /\ pc = "idle"
    /\ ret.kind = "generate"
    /\ Len(repos) = 2
    /\ Len(results) = 2

-----------------------------------------------------------------------------
(* Properties of the landing page (SpecLoader) *)

\* The last load fetched the document (and rendered it, or threw rendering it).
Loaded == loader.last \in {"courses", "empty", "threw"}

\* C27. The unified catalog is consumable by the loader of the landing page:
\* when ModulesLoader has loaded a unified catalog that is not empty,
\* renderModules has shown the courses view, not the empty view, and has not
\* gone the way of the errors.
C27_CatalogConsumable ==
    (Loaded /\ Unified(ScanOf(loader.served)).modules # <<>>) =>
        /\ Catalog(loader.served) = Unified(ScanOf(loader.served))
        /\ loader.last = "courses"

\* C28. Retry bound: while the retry button has not been clicked, at most
\* maxRetries (3) loads are started, the first and at most two from retry
\* timers of 2 seconds; after the third failure in a row the error view is
\* shown and no timer is pending.
C28_RetryBound ==
    loader.clicks = 0 =>
        /\ loader.attempts <= 3
        /\ loader.timers <= 2
        /\ loader.attempts <= loader.timers + 1
        /\ \A i \in DOMAIN loader.pending :
              loader.pending[i].kind = "timer" => loader.pending[i].delay = 2000
        /\ loader.retryCount <= 3
        /\ loader.retryCount = 3 =>
              /\ loader.view = "error"
              /\ loader.pending = <<>>
              /\ loader.attempts = 3

\* Three loads failed in a row without a click: the error view.
C28_Witness ==
    /\ loader.clicks = 0
    /\ loader.attempts = 3
    /\ loader.retryCount = 3
    /\ loader.view = "error"
    /\ loader.last = "failed"

\* C29. Retry counter: retryCount changes only by growing by one, with a load
\* that failed (a rendering exception included), or by being reset to 0, with
\* a load that fetched and rendered; so once the automatic retries are
\* exhausted a click starts one load and no more, and when that load fails the
\* error view is shown again and no retry scheduled.
C29_RetryCounter ==
    /\ [][loader'.retryCount # loader.retryCount =>
            \/ /\ loader'.retryCount = loader.retryCount + 1
               /\ loader'.settled = loader.settled + 1
               /\ loader'.last \in {"failed", "threw"}
            \/ /\ loader'.retryCount = 0
               /\ loader'.settled = loader.settled + 1
               /\ loader'.last \in {"courses", "empty"}
               /\ loader'.view = loader'.last]_vars
    /\ [][(loader'.settled = loader.settled + 1 /\ loader'.last \in {"failed", "threw"}) =>
            loader'.retryCount = loader.retryCount + 1]_vars
    /\ [][(loader.retryCount >= 3 /\ loader'.clicks = loader.clicks + 1) =>
            /\ loader'.attempts = loader.attempts + 1
            /\ Len(loader'.pending) = Len(loader.pending) + 1
            /\ loader'.timers = loader.timers
            /\ loader'.retryCount = loader.retryCount]_vars
    /\ [][(/\ loader.retryCount >= 3
           /\ loader'.settled = loader.settled + 1
           /\ loader'.last \in {"failed", "threw"}) =>
            /\ loader'.view = "error"
            /\ loader'.timers = loader.timers
            /\ loader'.attempts = loader.attempts]_vars

\* The retries were exhausted, the button was clicked once, the load failed:
\* four loads in all, and the error view.
C29_Witness ==
    /\ loader.clicks = 1
    /\ loader.attempts = 4
    /\ loader.retryCount = 4
    /\ loader.view = "error"
    /\ loader.pending = <<>>

\* C30. Single flight: as long as the retry button has been clicked in the
\* error view only, at most one load is pending at any time, a fetch in flight
\* or a retry timer; while one is pending the loading view is shown, and once
\* none is the view is what the load started last came to.
C30_SingleFlight ==
    ~loader.stray =>
        /\ Len(loader.pending) <= 1
        /\ loader.pending # <<>> => loader.view = "loading"
        /\ loader.pending = <<>> =>
              /\ loader.view \in {"courses", "empty", "error"}
              /\ loader.decidedBy = loader.attempts

\* After the error view and a click the document was loaded: the courses view.
C30_Witness ==
    /\ ~loader.stray
    /\ loader.clicks >= 1
    /\ loader.pending = <<>>
    /\ loader.view = "courses"
    /\ loader.decidedBy = loader.attempts
    /\ loader.attempts >= 4

-----------------------------------------------------------------------------
(* Two builds in a row (SpecRepeat) *)

\* The last two generateUnifiedModules calls of the scanner have settled.
TwoBuilds == lastBuilt.ret.kind = "generate" /\ ret.kind = "generate"

\* No cached descriptor carries the tag of a catalog entry.
CacheUntagged == \A k \in DOMAIN cache : "_source" \notin DOMAIN cache[k].data.data

\* C31 as stated. Repeatable builds: two successive generateUnifiedModules
\* calls on the same scanner, the listing, the remote descriptors and the
\* central registry unchanged, return equal modules sequences; and building a
\* catalog leaves the cached descriptors without the _source tag.
C31_RepeatableBuilds ==
    /\ (TwoBuilds /\ ~lastBuilt.ret.raised /\ ~ret.raised) =>
          ret.value.modules = lastBuilt.ret.value.modules
    /\ CacheUntagged

\* C31, amended. Repeatable builds: two successive generateUnifiedModules calls
\* on the same scanner, the listing, the remote descriptors and the central
\* registry unchanged since the scanner was constructed and every request of
\* both calls answered by the API, end alike: both raise, or both return and
\* their modules sequences are equal; and building a catalog never modifies a
\* cached descriptor, the _source tag is on the converted copy.
C31_RepeatableCleanBuilds ==
    /\ []((TwoBuilds /\ ~lastBuilt.failed /\ ~lastBuilt.failing) =>
            /\ ret.raised = lastBuilt.ret.raised
            /\ ~ret.raised => ret.value.modules = lastBuilt.ret.value.modules)
    /\ []CacheUntagged
    /\ [][(pc = "loop" /\ pc' = "idle") => cache' = cache]_vars

\* Two builds without a failed request returned the same catalog, an entry
\* converted from a cached module.json in it, the second build after the
\* entry of the first had expired.
C31_Witness ==
    /\ TwoBuilds
    /\ ~lastBuilt.failed
    /\ ~lastBuilt.failing
    /\ ~ret.raised
    /\ ~lastBuilt.ret.raised
    /\ ret.value.modules = lastBuilt.ret.value.modules
    /\ \E i \in DOMAIN ret.value.modules : ret.value.modules[i]._source = <<"module.json">>
    /\ \E i \in DOMAIN ret.value.modules : ret.value.modules[i]._source = <<"central">>
    /\ ret.value.generated_at > lastBuilt.ret.value.generated_at
    /\ cache # <<>>
    /\ CacheUntagged

====
